---------------------------- MODULE Spec2Model ----------------------------
(***************************************************************************)
(* A model of the smartqa-hub test-execution engine:                       *)
(*   - SmartQACore.runTests / executeTest / executeStep (core/engine.js),  *)
(*   - APITester.runAPITest / executeAPIStep / makeRequest (api tester),   *)
(*   - SmartQACore.initialize / cleanup and two callers of runTests,       *)
(*   - the Dashboard active-test registry, its stop route and its results. *)
(* Collaborators (the browser, the page, the HTTP client) are the          *)
(* environment: each of their calls either succeeds or raises.             *)
(***************************************************************************)
EXTENDS Integers, Sequences, FiniteSets, TLC

VARIABLES
    browsers,     \* SmartQACore.browsers: the initialized browser types, in Map order
    tests,        \* the batch handed to runTests
    rtPc,         \* position of the runTests invocation
    isRunning,    \* SmartQACore.isRunning
    results,      \* SmartQACore.results
    pc,           \* position of each pairing's executeTest promise
    ctx,          \* each pairing's browser context: none, open, closed, closeFailed
    idx,          \* each pairing's position in the for-loop over test.steps
    testResult,   \* each pairing's testResult object
    reason,       \* the rejection reason of a rejected executeTest promise
    events,       \* what the SmartQACore EventEmitter has emitted, in order
    activeTests,  \* Dashboard.activeTests (the ids held)
    ioEvents,     \* the 'testStopped' events the Dashboard has emitted, in order
    started,      \* per pairing: the steps whose executeStep call has begun
    apiConfig,    \* APITester.config (retries, validateSchema)
    endpoint,     \* what the HTTP endpoint answers to successive calls (cyclic)
    apiTest,      \* the test handed to runAPITest
    apiPc,        \* position of the runAPITest invocation
    apiIdx,       \* its position in the for-loop over test.steps
    apiResult,    \* its testResult object
    attempt,      \* makeRequest: attempt
    lastError,    \* makeRequest: lastError
    calls,        \* per step: the calls this.client(config) made for it
    delays,       \* per step: the delays makeRequest waited, in order
    thrown,       \* per step: the error makeRequest raised, if it raised
    apiStarted,   \* the steps whose executeAPIStep call has begun
    apiOutcomes,  \* the stepResults executeAPIStep returned, in order
    fnName,       \* the APITester helper called on its own, if one is
    fnArgs,       \* its arguments
    fnPc,         \* position of that call
    fnRet,        \* what it returned or raised
    ltOptions,    \* runLoadTest: concurrency, duration, rampUp
    ltPc,         \* position of the runLoadTest invocation
    now,          \* Date.now(), counted from the start of runLoadTest
    awaited,      \* the workers array as Promise.all received it
    workers,      \* runLoadTest: workers
    wPc,          \* position of each load-test worker
    wAttempt,     \* each worker's makeRequest: attempt
    wSent,        \* when each worker's call in flight was issued
    wTimer,       \* when each worker's wait in progress is over
    requests,     \* results.requests, the shared log
    summary,      \* results.summary
    actualDuration, \* results.actualDuration
    arrays,       \* two callers of runTests: the arrays this.results has referred to
    thisResults,  \* which of them this.results refers to
    invs,         \* each caller's runTests invocation
    configured,   \* initialize: browserTypes, as configured
    bootPc,       \* position of the initialize or cleanup invocation
    bootIdx,      \* its position in the for-loop
    bootLog,      \* what initialize and cleanup have logged, per browser type
    testResults,  \* Dashboard.testResults
    arrived,      \* how many results broadcastResults has been handed so far
    progress,     \* the progress stored with each active test
    answers       \* what the stop route has answered, in order

engineVars == <<browsers, tests, rtPc, isRunning, results, pc, ctx, idx,
                testResult, reason, events, started>>
dashVars == <<activeTests, ioEvents, testResults, arrived, progress, answers>>
apiVars == <<apiConfig, endpoint, apiTest, apiPc, apiIdx, apiResult, attempt,
             lastError, calls, delays, thrown, apiStarted, apiOutcomes>>
fnVars == <<fnName, fnArgs, fnPc, fnRet>>
loadVars == <<ltOptions, ltPc, now, awaited, workers, wPc, wAttempt, wSent, wTimer,
              requests, summary, actualDuration>>
callerVars == <<arrays, thisResults, invs>>
bootVars == <<configured, bootPc, bootIdx, bootLog>>
sideVars == <<callerVars, bootVars>>
auxVars == <<fnVars, loadVars, sideVars>>

-----------------------------------------------------------------------------
(* Bounds of the model *)

MaxSteps == 2        \* longest test.steps drawn
MaxIoEvents == 5     \* most events the Dashboard socket emits
MaxAnswers == 2      \* most requests the stop route answers
MaxArrivals == 1200  \* most results handed to broadcastResults
MaxRetries == 3      \* largest config.retries drawn

BrowserTypes == <<"chromium", "firefox">>   \* engine.js:25-33, the types launched
BatchSizes == {1, 2}                         \* lengths of the batches drawn

-----------------------------------------------------------------------------
(* Test definitions *)

\* A step the page decides ("page"), a step with an action executeStep does
\* not know ("unknown"), and a step that is not an object at all ("null").
StepKinds == {"page", "unknown", "null"}

Steps == [kind : StepKinds, continueOnFailure : BOOLEAN]

RECURSIVE SeqsUpTo(_, _)
SeqsUpTo(S, n) ==
    IF n = 0 THEN {<<>>}
    ELSE LET shorter == SeqsUpTo(S, n - 1)
         IN  shorter \cup {Append(s, x) : s \in {t \in shorter : Len(t) = n - 1}, x \in S}

\* null steps carry no continueOnFailure flag of their own
StepDomain == {s \in Steps : s.kind = "null" => ~s.continueOnFailure}

TestDefs == [steps : SeqsUpTo(StepDomain, MaxSteps)]


-----------------------------------------------------------------------------
(* SmartQACore: pairings *)

NumTests == Len(tests)
NumPairings == Len(browsers) * NumTests
Pairings == 1 .. NumPairings

\* promises are pushed browser by browser, and for each browser test by test
BrowserOf(p) == browsers[((p - 1) \div NumTests) + 1]
TestIndexOf(p) == ((p - 1) % NumTests) + 1
TestOf(p) == tests[TestIndexOf(p)]
TestId(p) == TestIndexOf(p)

NoResult == [status |-> "none"]

NewResult(p) ==
    [id |-> TestId(p), browser |-> BrowserOf(p), status |-> "running",
     steps |-> <<>>, screenshots |-> 0, error |-> "none", ended |-> FALSE]

PageError == "page error"
NullStepError == "Cannot read properties of null"
UnknownActionError == "Unknown action"
ContextError == "newContext failed"
NewPageError == "newPage failed"
CloseError == "close failed"
HandlerError == "handler failed"

\* a custom step calls step.handler when typeof step.handler === 'function'
Callable(step) == step.kind = "custom" /\ step.handler = "function"

\* executeStep on a step that is an object: the returned stepResult (ok: the
\* page call, or the handler called, did not raise); a custom step whose
\* handler is not a function calls nothing and breaks out of the switch
ExecuteStep(step, ok) ==
    IF \/ step.kind = "page" /\ ok
       \/ Callable(step) /\ ok
       \/ step.kind = "custom" /\ ~Callable(step)
    THEN [action |-> step.kind, status |-> "passed", error |-> "none", ended |-> TRUE]
    ELSE [action |-> step.kind, status |-> "failed",
          error |-> IF step.kind = "unknown" THEN UnknownActionError
                    ELSE IF step.kind = "custom" THEN HandlerError
                    ELSE PageError,
          ended |-> TRUE]


\* as MarkPassed, the status left as it was
MarkPassedStatusKept(r) == [r EXCEPT !.ended = TRUE]

\* the end of the try block
MarkPassed(r) == [r EXCEPT !.status = "passed", !.ended = TRUE]

\* as MarkFailed, the message of the error caught not kept
MarkFailedUnnamed(r, msg) == [r EXCEPT !.status = "failed", !.ended = TRUE]

\* the catch block, up to the screenshot
MarkFailed(r, msg) == [r EXCEPT !.status = "failed", !.error = msg, !.ended = TRUE]


\* as Blocking, continueOnFailure not read
BlockingAnyFailure(sr, step) == sr.status = "failed"

\* the for-loop condition of executeTest after a failed step
Blocking(sr, step) == sr.status = "failed" /\ ~step.continueOnFailure

\* as Advance, executeStep called on the step after step i as well, without
\* awaiting step i
AdvanceAhead(t, r, i, st) ==
    IF i > Len(t.steps)
    THEN [pc |-> "close", idx |-> i, result |-> MarkPassed(r), started |-> st]
    ELSE IF t.steps[i].kind = "null"
    THEN [pc |-> "screenshot", idx |-> i, result |-> MarkFailed(r, NullStepError),
          started |-> Append(st, i)]
    ELSE [pc |-> "inStep", idx |-> i, result |-> r,
          started |-> IF i < Len(t.steps) THEN Append(Append(st, i), i + 1)
                      ELSE Append(st, i)]

\* Control reaches the head of the for-loop with i the next step to run: the
\* loop is over (the test passed), or executeStep is called on step i, which
\* raises at once when the step is not an object.
Advance(t, r, i, st) ==
    IF i > Len(t.steps)
    THEN [pc |-> "close", idx |-> i, result |-> MarkPassed(r), started |-> st]
    ELSE IF t.steps[i].kind = "null"
    THEN [pc |-> "screenshot", idx |-> i, result |-> MarkFailed(r, NullStepError),
          started |-> Append(st, i)]
    ELSE [pc |-> "inStep", idx |-> i, result |-> r, started |-> Append(st, i)]

Apply(p, n) ==
    /\ pc' = [pc EXCEPT ![p] = n.pc]
    /\ idx' = [idx EXCEPT ![p] = n.idx]
    /\ testResult' = [testResult EXCEPT ![p] = n.result]
    /\ started' = [started EXCEPT ![p] = n.started]

-----------------------------------------------------------------------------
(* SmartQACore.runTests *)

RunTests ==
    /\ rtPc = "idle"
    /\ rtPc' = "awaiting"
    /\ isRunning' = TRUE
    /\ results' = <<>>
    /\ pc' = [p \in Pairings |-> "newContext"]
    /\ UNCHANGED <<browsers, tests, ctx, idx, testResult, reason, events, started>>
    /\ UNCHANGED <<dashVars, apiVars, auxVars>>

\* as NewContext, executeTest going on to newPage after a rejection too
NewContextUnchecked(p, ok) ==
    /\ pc[p] = "newContext"
    /\ ctx' = [ctx EXCEPT ![p] = IF ok THEN "open" ELSE @]
    /\ pc' = [pc EXCEPT ![p] = "newPage"]
    /\ UNCHANGED <<browsers, tests, rtPc, isRunning, results, idx, testResult,
                   reason, events, started>>
    /\ UNCHANGED <<dashVars, apiVars, auxVars>>

\* browser.newContext resolves or rejects
NewContext(p, ok) ==
    /\ pc[p] = "newContext"
    /\ IF ok
       THEN /\ ctx' = [ctx EXCEPT ![p] = "open"]
            /\ pc' = [pc EXCEPT ![p] = "newPage"]
            /\ UNCHANGED reason
       ELSE /\ pc' = [pc EXCEPT ![p] = "rejected"]
            /\ reason' = [reason EXCEPT ![p] = ContextError]
            /\ UNCHANGED ctx
    /\ UNCHANGED <<browsers, tests, rtPc, isRunning, results, idx, testResult,
                   events, started>>
    /\ UNCHANGED <<dashVars, apiVars, auxVars>>

\* context.newPage resolves, and the loop runs up to its first await, or rejects
NewPage(p, ok) ==
    /\ pc[p] = "newPage"
    /\ IF ok
       THEN /\ Apply(p, Advance(TestOf(p), NewResult(p), 1, <<>>))
            /\ UNCHANGED reason
       ELSE /\ pc' = [pc EXCEPT ![p] = "rejected"]
            /\ reason' = [reason EXCEPT ![p] = NewPageError]
            /\ UNCHANGED <<idx, testResult, started>>
    /\ UNCHANGED <<browsers, tests, rtPc, isRunning, results, ctx, events>>
    /\ UNCHANGED <<dashVars, apiVars, auxVars>>

\* the awaited executeStep returns its stepResult; the loop runs up to its next await
StepEnd(p, ok) ==
    /\ pc[p] = "inStep"
    /\ LET step == TestOf(p).steps[idx[p]]
           sr == ExecuteStep(step, ok)
           r == [testResult[p] EXCEPT !.steps = Append(@, sr)]
       IN  /\ step.kind = "unknown" => ~ok
           /\ (step.kind = "custom" /\ ~Callable(step)) => ok
           /\ IF Blocking(sr, step)
              THEN Apply(p, [pc |-> "screenshot", idx |-> idx[p],
                             result |-> MarkFailed(r, "Step failed: " \o sr.error),
                             started |-> started[p]])
              ELSE Apply(p, Advance(TestOf(p), r, idx[p] + 1, started[p]))
    /\ UNCHANGED <<browsers, tests, rtPc, isRunning, results, ctx, reason, events>>
    /\ UNCHANGED <<dashVars, apiVars, auxVars>>

\* as Screenshot, a capture that rejects rejecting executeTest
ScreenshotFatal(p, ok) ==
    /\ pc[p] = "screenshot"
    /\ testResult' = [testResult EXCEPT ![p].screenshots = IF ok THEN @ + 1 ELSE @]
    /\ pc' = [pc EXCEPT ![p] = IF ok THEN "close" ELSE "rejected"]
    /\ UNCHANGED <<browsers, tests, rtPc, isRunning, results, ctx, idx, reason,
                   events, started>>
    /\ UNCHANGED <<dashVars, apiVars, auxVars>>

\* page.screenshot in the catch block resolves or rejects (logged only)
Screenshot(p, ok) ==
    /\ pc[p] = "screenshot"
    /\ testResult' = [testResult EXCEPT ![p].screenshots = IF ok THEN @ + 1 ELSE @]
    /\ pc' = [pc EXCEPT ![p] = "close"]
    /\ UNCHANGED <<browsers, tests, rtPc, isRunning, results, ctx, idx, reason,
                   events, started>>
    /\ UNCHANGED <<dashVars, apiVars, auxVars>>

\* context.close in the finally block resolves, and testCompleted is emitted
\* and the result returned, or rejects, and executeTest rejects
Close(p, ok) ==
    /\ pc[p] = "close"
    /\ IF ok
       THEN /\ ctx' = [ctx EXCEPT ![p] = "closed"]
            /\ events' = Append(events, [type |-> "testCompleted", pairing |-> p,
                                         result |-> testResult[p]])
            /\ pc' = [pc EXCEPT ![p] = "fulfilled"]
            /\ UNCHANGED reason
       ELSE /\ ctx' = [ctx EXCEPT ![p] = "closeFailed"]
            /\ pc' = [pc EXCEPT ![p] = "rejected"]
            /\ reason' = [reason EXCEPT ![p] = CloseError]
            /\ UNCHANGED events
    /\ UNCHANGED <<browsers, tests, rtPc, isRunning, results, idx, testResult, started>>
    /\ UNCHANGED <<dashVars, apiVars, auxVars>>

Count(rs, st) == Cardinality({i \in 1 .. Len(rs) : rs[i].status = st})

\* as GenerateSummary, total counting the passed entries only
GenerateSummaryOfPassed(rs) ==
    [total |-> Count(rs, "passed"), passed |-> Count(rs, "passed"),
     failed |-> Count(rs, "failed"), skipped |-> Count(rs, "skipped")]

GenerateSummary(rs) ==
    [total |-> Len(rs), passed |-> Count(rs, "passed"),
     failed |-> Count(rs, "failed"), skipped |-> Count(rs, "skipped")]

\* as Entry, the settled promises taken last first
EntryLastFirst(p) ==
    LET q == NumPairings + 1 - p
    IN  IF pc[q] = "fulfilled" THEN testResult[q]
        ELSE [status |-> "failed", error |-> reason[q]]

\* the entry runTests pushes for one settled promise
Entry(p) ==
    IF pc[p] = "fulfilled" THEN testResult[p]
    ELSE [status |-> "failed", error |-> reason[p]]


\* as Settled, for a runTests that waits for the first promise only
SettledFirst == \E p \in Pairings : pc[p] \in {"fulfilled", "rejected"}

Settled == \A p \in Pairings : pc[p] \in {"fulfilled", "rejected"}

\* Promise.allSettled resolves: results are collected in promise order,
\* testsCompleted is emitted, results are returned, finally resets isRunning
RunTestsSettle ==
    /\ rtPc = "awaiting" /\ Settled
    /\ results' = [p \in Pairings |-> Entry(p)]
    /\ events' = Append(events, [type |-> "testsCompleted", results |-> results',
                                 summary |-> GenerateSummary(results')])
    /\ isRunning' = FALSE
    /\ rtPc' = "returned"
    /\ UNCHANGED <<browsers, tests, pc, ctx, idx, testResult, reason, started>>
    /\ UNCHANGED <<dashVars, apiVars, auxVars>>

-----------------------------------------------------------------------------
(* SmartQACore.runTests called by two callers on one core *)

Callers == {1, 2}

\* the constructor's this.results = [], and the batch of each caller
InitCallers(bs, n, at) ==
    /\ arrays = <<<<>>>>
    /\ thisResults = 1
    /\ invs = [k \in Callers |->
                  [pc |-> at, overlapped |-> FALSE, returned |-> 0,
                   settled |-> [p \in 1 .. Len(bs) * n[k] |-> "pending"]]]

\* runTests is called once only
CallersUnused == InitCallers(<<>>, [k \in Callers |-> 0], "unused")

InProgress(k) == invs[k].pc = "awaiting"

\* runTests up to its await: isRunning is set, this.results is a new array, and
\* executeTest is called for every pairing (overlapped records that the other
\* caller's invocation is in progress at that moment)
CallRunTests(k) ==
    /\ invs[k].pc = "idle"
    /\ isRunning' = TRUE
    /\ arrays' = Append(arrays, <<>>)
    /\ thisResults' = Len(arrays) + 1
    /\ LET met == \E j \in Callers \ {k} : InProgress(j)
       IN  invs' = [j \in Callers |->
                       IF j = k THEN [invs[j] EXCEPT !.pc = "awaiting", !.overlapped = met]
                       ELSE [invs[j] EXCEPT !.overlapped = @ \/ met]]
    /\ UNCHANGED <<browsers, tests, rtPc, results, pc, ctx, idx, testResult, reason,
                   events, started>>
    /\ UNCHANGED <<dashVars, apiVars, fnVars, loadVars, bootVars>>

\* the executeTest promise of pairing p of caller k settles: it is fulfilled
\* with a passed or failed testResult, testCompleted emitted, or it is rejected
ExecuteTestSettles(k, p, o) ==
    /\ InProgress(k)
    /\ p \in DOMAIN invs[k].settled
    /\ invs[k].settled[p] = "pending"
    /\ invs' = [invs EXCEPT ![k].settled[p] = o]
    /\ events' = IF o = "rejected" THEN events
                 ELSE Append(events, [type |-> "testCompleted", caller |-> k,
                                      pairing |-> p])
    /\ UNCHANGED <<browsers, tests, rtPc, isRunning, results, pc, ctx, idx, testResult,
                   reason, started>>
    /\ UNCHANGED <<arrays, thisResults>>
    /\ UNCHANGED <<dashVars, apiVars, fnVars, loadVars, bootVars>>

\* the entry runTests pushes for pairing p of caller k (caller and pairing name
\* the promise the entry was made for)
EntryOf(k, p) ==
    [caller |-> k, pairing |-> p,
     status |-> IF invs[k].settled[p] = "passed" THEN "passed" ELSE "failed"]

EntriesOf(k) == [p \in DOMAIN invs[k].settled |-> EntryOf(k, p)]

\* Promise.allSettled of caller k resolves: the entries are pushed onto the array
\* this.results refers to now, testsCompleted is emitted, and that array is
\* returned, or a listener of the event raises and runTests rethrows; the
\* finally block resets isRunning either way
ResumeRunTests(k, ok) ==
    /\ InProgress(k)
    /\ \A p \in DOMAIN invs[k].settled : invs[k].settled[p] # "pending"
    /\ arrays' = [arrays EXCEPT ![thisResults] = @ \o EntriesOf(k)]
    /\ events' = Append(events, [type |-> "testsCompleted", caller |-> k,
                                 results |-> arrays'[thisResults],
                                 summary |-> GenerateSummary(arrays'[thisResults])])
    /\ invs' = [invs EXCEPT ![k].pc = IF ok THEN "returned" ELSE "threw",
                            ![k].returned = IF ok THEN thisResults ELSE 0]
    /\ isRunning' = FALSE
    /\ UNCHANGED <<browsers, tests, rtPc, results, pc, ctx, idx, testResult, reason,
                   started>>
    /\ UNCHANGED thisResults
    /\ UNCHANGED <<dashVars, apiVars, fnVars, loadVars, bootVars>>

-----------------------------------------------------------------------------
(* SmartQACore.initialize and cleanup *)

MaxBrowsers == 3     \* longest config.browsers drawn

\* a type initialize does not know
Unsupported == "safari"

Supported(type) == \E k \in 1 .. Len(BrowserTypes) : BrowserTypes[k] = type

\* this.browsers.set(type, browser): a key the Map holds keeps its place
MapSet(map, type) ==
    IF \E k \in 1 .. Len(map) : map[k] = type THEN map ELSE Append(map, type)

\* the for-loop of initialize from position i on, up to its next await: a type
\* that is not supported raises inside the try block and is skipped
RECURSIVE NextLaunch(_, _)
NextLaunch(cfg, i) ==
    IF i > Len(cfg) \/ Supported(cfg[i]) THEN i ELSE NextLaunch(cfg, i + 1)

\* where initialize is once its loop has reached position i with the Map map
AfterLoop(cfg, i, map) ==
    IF i <= Len(cfg) THEN "launching"
    ELSE IF Len(map) = 0 THEN "raised"
    ELSE "ready"

\* the errors the catch block logs for the types skipped from position i to j - 1
LogSkipped(cfg, i, j) ==
    [k \in 1 .. j - i |-> [type |-> cfg[i + k - 1], what |-> "failed"]]

InitBoot(cfg, at) ==
    /\ configured = cfg
    /\ bootPc = at
    /\ bootIdx = 0
    /\ bootLog = <<>>

\* initialize is not called
BootUnused == InitBoot(<<>>, "unused")

\* initialize is called on a new core
Initialize ==
    /\ bootPc = "new"
    /\ bootIdx' = NextLaunch(configured, 1)
    /\ bootPc' = AfterLoop(configured, bootIdx', browsers)
    /\ bootLog' = LogSkipped(configured, 1, bootIdx')
    /\ UNCHANGED configured
    /\ UNCHANGED engineVars
    /\ UNCHANGED <<dashVars, apiVars, fnVars, loadVars, callerVars>>

\* as LaunchSettles, a launch that rejects ending the loop
LaunchSettlesAborting(ok) ==
    /\ bootPc = "launching"
    /\ browsers' = IF ok THEN MapSet(browsers, configured[bootIdx]) ELSE browsers
    /\ bootIdx' = IF ok THEN NextLaunch(configured, bootIdx + 1) ELSE Len(configured) + 1
    /\ bootPc' = AfterLoop(configured, bootIdx', browsers')
    /\ bootLog' = Append(bootLog, [type |-> configured[bootIdx],
                                   what |-> IF ok THEN "initialized" ELSE "failed"])
                     \o IF ok THEN LogSkipped(configured, bootIdx + 1, bootIdx') ELSE <<>>
    /\ UNCHANGED configured
    /\ UNCHANGED <<tests, rtPc, isRunning, results, pc, ctx, idx, testResult, reason,
                   events, started>>
    /\ UNCHANGED <<dashVars, apiVars, fnVars, loadVars, callerVars>>

\* the awaited launch resolves and the browser is put in the Map, or rejects
\* and the catch block logs it; the loop goes on to its next await or ends, and
\* initialize raises if the Map is empty
LaunchSettles(ok) ==
    /\ bootPc = "launching"
    /\ browsers' = IF ok THEN MapSet(browsers, configured[bootIdx]) ELSE browsers
    /\ bootIdx' = NextLaunch(configured, bootIdx + 1)
    /\ bootPc' = AfterLoop(configured, bootIdx', browsers')
    /\ bootLog' = Append(bootLog, [type |-> configured[bootIdx],
                                   what |-> IF ok THEN "initialized" ELSE "failed"])
                     \o LogSkipped(configured, bootIdx + 1, bootIdx')
    /\ UNCHANGED configured
    /\ UNCHANGED <<tests, rtPc, isRunning, results, pc, ctx, idx, testResult, reason,
                   events, started>>
    /\ UNCHANGED <<dashVars, apiVars, fnVars, loadVars, callerVars>>

\* cleanup is called: it awaits the close of the first browser, or clears the
\* Map at once when it holds none
Cleanup ==
    /\ bootPc \in {"ready", "raised"}
    /\ bootIdx' = 1
    /\ bootPc' = IF Len(browsers) = 0 THEN "clean" ELSE "closing"
    /\ UNCHANGED <<configured, bootLog>>
    /\ UNCHANGED engineVars
    /\ UNCHANGED <<dashVars, apiVars, fnVars, loadVars, callerVars>>

\* the awaited browser.close() resolves, or rejects and the catch block logs
\* it; after the last browser the Map is cleared
CloseSettles(ok) ==
    /\ bootPc = "closing"
    /\ bootLog' = Append(bootLog, [type |-> browsers[bootIdx],
                                   what |-> IF ok THEN "closed" ELSE "closeFailed"])
    /\ IF bootIdx < Len(browsers)
       THEN /\ bootIdx' = bootIdx + 1
            /\ UNCHANGED <<bootPc, browsers>>
       ELSE /\ browsers' = <<>>
            /\ bootPc' = "clean"
            /\ UNCHANGED bootIdx
    /\ UNCHANGED configured
    /\ UNCHANGED <<tests, rtPc, isRunning, results, pc, ctx, idx, testResult, reason,
                   events, started>>
    /\ UNCHANGED <<dashVars, apiVars, fnVars, loadVars, callerVars>>

-----------------------------------------------------------------------------
(* Dashboard: the active-test registry *)

ActiveList(a) == [type |-> "activeTests", ids |-> a]

\* the registry entry of id is removed, with what is stored in it
Without(id) == [i \in activeTests \ {id} |-> progress[i]]

\* Dashboard.broadcastTestStart: the entry is made anew, with no progress
BroadcastTestStart(id) ==
    /\ Len(ioEvents) + 2 <= MaxIoEvents
    /\ activeTests' = activeTests \cup {id}
    /\ progress' = [i \in activeTests' |-> IF i = id THEN "none" ELSE progress[i]]
    /\ ioEvents' = ioEvents \o <<[type |-> "testStarted", testId |-> id],
                                 ActiveList(activeTests')>>
    /\ UNCHANGED <<testResults, arrived, answers>>
    /\ UNCHANGED <<engineVars, apiVars, auxVars>>

\* as StopTest, an id the registry does not hold answered as one it holds
StopTestAlwaysFound(id) ==
    /\ Len(ioEvents) + 1 <= MaxIoEvents
    /\ Len(answers) < MaxAnswers
    /\ activeTests' = activeTests \ {id}
    /\ progress' = Without(id)
    /\ ioEvents' = Append(ioEvents, [type |-> "testStopped", testId |-> id])
    /\ answers' = Append(answers, [testId |-> id, status |-> 200])
    /\ UNCHANGED <<testResults, arrived>>
    /\ UNCHANGED <<engineVars, apiVars, auxVars>>

\* POST /api/tests/:id/stop: an id the registry holds is removed, testStopped
\* emitted and the request answered 200; any other id is answered 404
StopTest(id) ==
    /\ Len(ioEvents) + 1 <= MaxIoEvents
    /\ Len(answers) < MaxAnswers
    /\ IF id \in activeTests
       THEN /\ activeTests' = activeTests \ {id}
            /\ progress' = Without(id)
            /\ ioEvents' = Append(ioEvents, [type |-> "testStopped", testId |-> id])
            /\ answers' = Append(answers, [testId |-> id, status |-> 200])
       ELSE /\ answers' = Append(answers, [testId |-> id, status |-> 404])
            /\ UNCHANGED <<activeTests, progress, ioEvents>>
    /\ UNCHANGED <<testResults, arrived>>
    /\ UNCHANGED <<engineVars, apiVars, auxVars>>

\* Dashboard.broadcastTestComplete
BroadcastTestComplete(id) ==
    /\ Len(ioEvents) + 2 <= MaxIoEvents
    /\ activeTests' = activeTests \ {id}
    /\ progress' = Without(id)
    /\ ioEvents' = ioEvents \o <<[type |-> "testCompleted", testId |-> id],
                                 ActiveList(activeTests')>>
    /\ UNCHANGED <<testResults, arrived, answers>>
    /\ UNCHANGED <<engineVars, apiVars, auxVars>>

\* Dashboard.broadcastTestProgress: for an id the registry holds the progress
\* is stored and testProgress emitted; for any other id nothing is done
BroadcastTestProgress(id, pr) ==
    /\ Len(ioEvents) + 1 <= MaxIoEvents
    /\ IF id \in activeTests
       THEN /\ progress' = [progress EXCEPT ![id] = pr]
            /\ ioEvents' = Append(ioEvents, [type |-> "testProgress", testId |-> id,
                                             progress |-> pr])
       ELSE UNCHANGED <<progress, ioEvents>>
    /\ UNCHANGED <<activeTests, testResults, arrived, answers>>
    /\ UNCHANGED <<engineVars, apiVars, auxVars>>

-----------------------------------------------------------------------------
(* Dashboard.broadcastResults *)

KeepLast == 1000

\* the n results handed over next: each result is written as its number in
\* the order of arrival
Arriving(n) == [k \in 1 .. n |-> arrived + k]

\* this.testResults.slice(-KeepLast)
Slice(rs) == IF Len(rs) > KeepLast THEN SubSeq(rs, Len(rs) - KeepLast + 1, Len(rs)) ELSE rs

\* as BroadcastResults, the list cut before the results are pushed
BroadcastResultsCutFirst(n) ==
    /\ arrived + n <= MaxArrivals
    /\ arrived' = arrived + n
    /\ testResults' = Slice(testResults) \o Arriving(n)
    /\ UNCHANGED <<activeTests, ioEvents, progress, answers>>
    /\ UNCHANGED <<engineVars, apiVars, auxVars>>

\* Dashboard.broadcastResults with an array of n results, or with one result
\* that is no array (n = 1): they are pushed and the list is cut to its last
\* KeepLast entries (the emits that follow read the list and change nothing)
BroadcastResults(n) ==
    /\ arrived + n <= MaxArrivals
    /\ arrived' = arrived + n
    /\ testResults' = Slice(testResults \o Arriving(n))
    /\ UNCHANGED <<activeTests, ioEvents, progress, answers>>
    /\ UNCHANGED <<engineVars, apiVars, auxVars>>

-----------------------------------------------------------------------------
(* APITester: steps, responses and errors *)

\* setup stands for cleanup too: executeSetup and executeCleanup are the same code
ApiStepTypes == {"request", "assertion", "wait", "setup", "unknown", "null"}

\* the names a request step saves its response under (saveAs) and an assertion
\* names its subject by (assertion.target); "none" when the step names none
SlotNames == {"none", "resp"}

ApiSteps ==
    [type : ApiStepTypes, continueOnFailure : BOOLEAN, responseSchema : BOOLEAN,
     saveAs : SlotNames, target : SlotNames]

ApiStepDomain ==
    {s \in ApiSteps : /\ s.type # "request" => ~s.responseSchema /\ s.saveAs = "none"
                      /\ s.type # "assertion" => s.target = "none"
                      /\ s.type \in {"null", "wait"} => ~s.continueOnFailure}

ApiTestDefs == [steps : SeqsUpTo(ApiStepDomain, MaxSteps)]

\* What one call of the HTTP client meets: a response with a status code and a
\* body that conforms to the step's responseSchema or not, or no response.
TransportFailure == [status |-> 0, conforms |-> FALSE]

Outcomes ==
    {[status |-> 200, conforms |-> TRUE], [status |-> 200, conforms |-> FALSE],
     [status |-> 500, conforms |-> FALSE], TransportFailure}

\* lastError before any attempt failed
NoErr == [message |-> "undefined", call |-> 0]

NetworkError(c) == [message |-> "Network Error", call |-> c]
SchemaError(c) == [message |-> "Schema validation failed", call |-> c]
UndefinedError == "Cannot read properties of undefined"
UnknownStepError == "Unknown step type"
AssertionError == "assertion failed"
NoResponseError == "No response found for assertion target"


\* as ClientRaises, were every status outside 2xx an error of the call
ClientRaisesOutside2xx(o) == o = TransportFailure \/ o.status \notin 200 .. 299

\* as ClientRaises, with the default validateStatus of axios
ClientRaisesOnErrorStatus(o) == o = TransportFailure \/ o.status >= 400

\* axios is created with validateStatus: () => true: a call raises only when
\* no response was received
ClientRaises(o) == o = TransportFailure

\* the error raised inside the try block of makeRequest by call number c
\* meeting outcome o, NoErr when the response is returned
AttemptError(step, cfg, o, c) ==
    IF ClientRaises(o) THEN NetworkError(c)
    ELSE IF step.responseSchema /\ cfg.validateSchema /\ ~o.conforms THEN SchemaError(c)
    ELSE NoErr

BaseDelay == 1000

RECURSIVE Pow2(_)
Pow2(n) == IF n = 0 THEN 1 ELSE 2 * Pow2(n - 1)


\* as Delay, counted from the attempt before
DelayFromZero(a) == Pow2(a - 1) * BaseDelay

\* makeRequest: the delay waited once the failed attempt has been counted
Delay(a) == Pow2(a) * BaseDelay


\* as RetryLeft, one attempt too many
RetryLeftInclusive(a, cfg) == a <= cfg.retries

\* makeRequest: whether another attempt follows when a attempts have failed
RetryLeft(a, cfg) == a < cfg.retries

\* makeRequest: the error thrown once the loop is over
ThrownError(last) == last

ApiStepResult(step, status, error, response) ==
    [type |-> step.type, status |-> status, error |-> error, response |-> response,
     ended |-> TRUE]

\* the testResult of runAPITest, which executeAPIStep is handed as testContext:
\* slots holds the properties assigned to it by saveAs; a slot named requests
\* is the value of testResult.requests from then on, in place of the list
NewApiResult ==
    [status |-> "running", requests |-> <<>>, assertions |-> <<>>, error |-> "none",
     ended |-> FALSE, slots |-> <<>>]

\* as SaveAs, the response stored also by a step that names no saveAs
SaveAlways(r, step, response) ==
    [r EXCEPT !.slots = [n \in DOMAIN r.slots \cup {"resp"} |->
                            IF n = "resp" THEN response ELSE r.slots[n]]]

\* if (step.saveAs) testContext[step.saveAs] = response
SaveAs(r, step, response) ==
    IF step.saveAs = "none" THEN r
    ELSE [r EXCEPT !.slots = [n \in DOMAIN r.slots \cup {step.saveAs} |->
                                 IF n = step.saveAs THEN response ELSE r.slots[n]]]

\* testContext[assertion.target] || testContext.lastResponse, -1 for undefined
Subject(step, r) ==
    IF step.target \in DOMAIN r.slots THEN r.slots[step.target]
    ELSE IF "lastResponse" \in DOMAIN r.slots THEN r.slots["lastResponse"]
    ELSE -1

PushError == "testResult.requests.push is not a function"

\* testResult.requests.push raises when requests is a response saved under
\* that name, no longer the array
PushRaises(r, sr) == sr.type = "request" /\ "requests" \in DOMAIN r.slots

\* runAPITest files the stepResult by its type
Record(r, sr) ==
    IF sr.type = "request" THEN [r EXCEPT !.requests = Append(@, sr)]
    ELSE IF sr.type = "assertion" THEN [r EXCEPT !.assertions = Append(@, sr)]
    ELSE r

ApiMarkPassed(r) == [r EXCEPT !.status = "passed", !.ended = TRUE]

ApiMarkFailed(r, msg) == [r EXCEPT !.status = "failed", !.error = msg, !.ended = TRUE]

ApiBlocking(sr, step) == sr.status = "failed" /\ ~step.continueOnFailure

\* Control reaches the head of the for-loop of runAPITest with i the next step:
\* the loop is over, or executeAPIStep is called on step i; it raises at once
\* on a step that is not an object, and enters makeRequest on a request step.
ApiAdvance(t, cfg, r, i, st) ==
    IF i > Len(t.steps)
    THEN [pc |-> "done", idx |-> i, result |-> ApiMarkPassed(r), started |-> st]
    ELSE IF t.steps[i].type = "null"
    THEN [pc |-> "done", idx |-> i, result |-> ApiMarkFailed(r, NullStepError),
          started |-> Append(st, i)]
    ELSE IF t.steps[i].type = "request" /\ RetryLeft(0, cfg)
    THEN [pc |-> "calling", idx |-> i, result |-> r, started |-> Append(st, i)]
    ELSE [pc |-> "inStep", idx |-> i, result |-> r, started |-> Append(st, i)]

\* executeAPIStep returned sr for step i: the rest of the loop body
ApiLoop(t, cfg, r, sr, i, st) ==
    IF PushRaises(r, sr)
    THEN [pc |-> "done", idx |-> i, result |-> ApiMarkFailed(r, PushError),
          started |-> st]
    ELSE IF ApiBlocking(sr, t.steps[i])
    THEN [pc |-> "done", idx |-> i,
          result |-> ApiMarkFailed(Record(r, sr), "Step failed: " \o sr.error),
          started |-> st]
    ELSE ApiAdvance(t, cfg, Record(r, sr), i + 1, st)

\* attempt and lastError are locals of makeRequest, fresh at each entry
ApiApply(n) ==
    /\ apiPc' = n.pc
    /\ apiIdx' = n.idx
    /\ apiResult' = n.result
    /\ apiStarted' = n.started
    /\ attempt' = 0
    /\ lastError' = NoErr

-----------------------------------------------------------------------------
(* APITester.runAPITest, executeAPIStep, makeRequest *)

RunAPITest ==
    /\ apiPc = "idle"
    /\ ApiApply(ApiAdvance(apiTest, apiConfig, NewApiResult, 1, <<>>))
    /\ UNCHANGED <<apiConfig, endpoint, apiTest, calls, delays, thrown, apiOutcomes>>
    /\ UNCHANGED <<engineVars, dashVars, auxVars>>

RECURSIVE SumTo(_, _)
SumTo(f, n) == IF n = 0 THEN 0 ELSE f[n] + SumTo(f, n - 1)

TotalCalls == SumTo(calls, Len(apiTest.steps))

\* the awaited this.client(config) settles
ClientReturn ==
    /\ apiPc = "calling"
    /\ LET i == apiIdx
           step == apiTest.steps[i]
           c == TotalCalls + 1
           o == endpoint[((c - 1) % Len(endpoint)) + 1]
           err == AttemptError(step, apiConfig, o, c)
       IN  /\ calls' = [calls EXCEPT ![i] = @ + 1]
           /\ IF err = NoErr
              THEN \* the response is returned and the step passes
                   LET sr == ApiStepResult(step, "passed", "none", o.status)
                   IN  /\ ApiApply(ApiLoop(apiTest, apiConfig, SaveAs(apiResult, step, o.status),
                                        sr, i, apiStarted))
                       /\ apiOutcomes' = Append(apiOutcomes, sr)
                       /\ UNCHANGED <<delays, thrown>>
              ELSE IF RetryLeft(attempt + 1, apiConfig)
              THEN \* the catch block counts the attempt and waits
                   /\ attempt' = attempt + 1
                   /\ lastError' = err
                   /\ delays' = [delays EXCEPT ![i] = Append(@, Delay(attempt + 1))]
                   /\ apiPc' = "waiting"
                   /\ UNCHANGED <<apiIdx, apiResult, apiStarted, thrown, apiOutcomes>>
              ELSE \* the budget is spent: lastError is thrown and the step fails
                   LET e == ThrownError(err)
                       sr == ApiStepResult(step, "failed", e.message, -1)
                   IN  /\ ApiApply(ApiLoop(apiTest, apiConfig, apiResult, sr, i, apiStarted))
                       /\ apiOutcomes' = Append(apiOutcomes, sr)
                       /\ thrown' = [thrown EXCEPT ![i] = e]
                       /\ UNCHANGED delays
    /\ UNCHANGED <<apiConfig, endpoint, apiTest>>
    /\ UNCHANGED <<engineVars, dashVars, auxVars>>

\* the awaited this.wait(delay) of makeRequest is over: the loop calls again
WaitDone ==
    /\ apiPc = "waiting"
    /\ apiPc' = "calling"
    /\ UNCHANGED <<apiConfig, endpoint, apiTest, apiIdx, apiResult, attempt, lastError,
                   calls, delays, thrown, apiStarted, apiOutcomes>>
    /\ UNCHANGED <<engineVars, dashVars, auxVars>>

\* executeAPIStep settles for a step that makes no call: an assertion raises
\* when it finds no subject and else passes or raises, as a setup handler
\* does, a wait passes, an unknown type raises inside the try block; a request
\* with no attempt left makes makeRequest throw
\* lastError, which is undefined, and reading its message raises in the catch
\* block of executeAPIStep.
ApiStepEnd(ok) ==
    /\ apiPc = "inStep"
    /\ LET i == apiIdx
           step == apiTest.steps[i]
       IN  /\ step.type = "wait" => ok
           /\ step.type \in {"unknown", "request"} => ~ok
           /\ (step.type = "assertion" /\ Subject(step, apiResult) = -1) => ~ok
           /\ IF step.type = "request"
              THEN /\ ApiApply([pc |-> "done", idx |-> i,
                                result |-> ApiMarkFailed(apiResult, UndefinedError),
                                started |-> apiStarted])
                   /\ thrown' = [thrown EXCEPT ![i] = ThrownError(lastError)]
                   /\ UNCHANGED apiOutcomes
              ELSE LET msg == IF step.type = "unknown" THEN UnknownStepError
                              ELSE IF step.type # "assertion" THEN HandlerError
                              ELSE IF Subject(step, apiResult) = -1 THEN NoResponseError
                              ELSE AssertionError
                       sr == IF ok THEN ApiStepResult(step, "passed", "none", -1)
                             ELSE ApiStepResult(step, "failed", msg, -1)
                   IN  /\ ApiApply(ApiLoop(apiTest, apiConfig, apiResult, sr, i, apiStarted))
                       /\ apiOutcomes' = Append(apiOutcomes, sr)
                       /\ UNCHANGED thrown
    /\ UNCHANGED <<apiConfig, endpoint, apiTest, calls, delays>>
    /\ UNCHANGED <<engineVars, dashVars, auxVars>>

-----------------------------------------------------------------------------
(* APITester helpers: values *)

\* A JavaScript value is a record of its type t and its payload v. A string is
\* the sequence of its characters; a run of word characters (\w) that is not
\* split any further is written as one character of the sequence.
Undefined == [t |-> "undefined", v |-> 0]
Val(t, v) == [t |-> t, v |-> v]

WordChars == {"a", "b", "c", "x", "y", "constructor"}

\* what every object literal inherits: Object.prototype (the part drawn on)
ObjectPrototype == [constructor |-> [t |-> "function", v |-> "Object"]]

\* context[key]: an own property, or else an inherited one, or else undefined
Get(context, key) ==
    IF key \in DOMAIN context THEN context[key]
    ELSE IF key \in DOMAIN ObjectPrototype THEN ObjectPrototype[key]
    ELSE Undefined

\* String(value), as String.prototype.replace applies it to what the replacer
\* function returns
Stringify(val) ==
    IF val.t = "string" THEN val.v
    ELSE IF val.t = "number" THEN <<ToString(val.v)>>
    ELSE IF val.t \in {"null", "undefined"} THEN <<val.t>>
    ELSE IF val.t = "boolean" THEN <<ToString(val.v)>>
    ELSE IF val.t = "function" THEN <<"function " \o val.v \o "() { [native code] }">>
    ELSE <<"[object Object]">>

-----------------------------------------------------------------------------
(* APITester.interpolateVariables *)

\* the length of the run of word characters of s that starts at position i
RECURSIVE WordRun(_, _)
WordRun(s, i) ==
    IF i <= Len(s) /\ s[i] \in WordChars THEN 1 + WordRun(s, i + 1) ELSE 0

\* /\{\{(\w+)\}\}/ at position i of s: the length of the key matched, 0 when
\* the expression does not match there
MatchAt(s, i) ==
    IF i + 1 <= Len(s) /\ s[i] = "{" /\ s[i + 1] = "{"
    THEN LET n == WordRun(s, i + 2)
         IN  IF /\ n >= 1
                /\ i + n + 3 <= Len(s)
                /\ s[i + n + 2] = "}"
                /\ s[i + n + 3] = "}"
             THEN n
             ELSE 0
    ELSE 0

\* the captured group: the n word characters after the two braces at i
RECURSIVE KeyAt(_, _, _)
KeyAt(s, i, n) ==
    IF n = 0 THEN "" ELSE s[i + 2] \o KeyAt(s, i + 1, n - 1)

\* the replacer function of interpolateVariables
Replacer(match, key, context) ==
    IF Get(context, key).t # "undefined" THEN Stringify(Get(context, key)) ELSE match

\* obj.replace(/\{\{(\w+)\}\}/g, replacer) from position i on: matches are
\* taken leftmost first and the scan resumes after each match
RECURSIVE ReplaceAll(_, _, _)
ReplaceAll(s, context, i) ==
    IF i > Len(s) THEN <<>>
    ELSE LET n == MatchAt(s, i)
         IN  IF n = 0
             THEN <<s[i]>> \o ReplaceAll(s, context, i + 1)
             ELSE Replacer(SubSeq(s, i, i + n + 3), KeyAt(s, i, n), context)
                      \o ReplaceAll(s, context, i + n + 4)

RECURSIVE InterpolateVariables(_, _)
InterpolateVariables(obj, context) ==
    IF obj.t = "string" THEN Val("string", ReplaceAll(obj.v, context, 1))
    ELSE IF obj.t = "array"
    THEN Val("array", [k \in 1 .. Len(obj.v) |-> InterpolateVariables(obj.v[k], context)])
    ELSE IF obj.t = "object"
    THEN Val("object", [k \in DOMAIN obj.v |-> InterpolateVariables(obj.v[k], context)])
    ELSE obj

\* a helper of APITester is called on its own with the arguments args
InitFn(name, args) ==
    /\ fnName = name
    /\ fnArgs = args
    /\ fnPc = "called"
    /\ fnRet = Undefined

\* no helper is called on its own
FnUnused ==
    /\ fnName = "none"
    /\ fnArgs = <<>>
    /\ fnPc = "unused"
    /\ fnRet = Undefined

CallInterpolateVariables ==
    /\ fnPc = "called"
    /\ fnName = "interpolateVariables"
    /\ fnRet' = InterpolateVariables(fnArgs.obj, fnArgs.context)
    /\ fnPc' = "returned"
    /\ UNCHANGED <<fnName, fnArgs>>
    /\ UNCHANGED <<engineVars, dashVars, apiVars, loadVars, sideVars>>

-----------------------------------------------------------------------------
(* APITester.executeAssertion, getNestedValue *)

\* !!value
Truthy(val) ==
    IF val.t \in {"undefined", "null"} THEN FALSE
    ELSE IF val.t = "boolean" THEN val.v
    ELSE IF val.t = "number" THEN val.v # 0
    ELSE IF val.t = "string" THEN val.v # <<>>
    ELSE TRUE

\* value[key] of a value that is neither undefined nor null: of an object, as
\* Get; a primitive has no own property and inherits as well
GetProp(val, key) ==
    IF val.t = "object" THEN Get(val.v, key)
    ELSE IF key \in DOMAIN ObjectPrototype
    THEN [t |-> "function",
          v |-> IF val.t = "number" THEN "Number"
                ELSE IF val.t = "string" THEN "String" ELSE "Boolean"]
    ELSE Undefined

\* path.split('.').reduce((current, key) =>
\*     current && current[key] !== undefined ? current[key] : undefined, obj),
\* path given as the sequence of its keys
RECURSIVE GetNestedValue(_, _)
GetNestedValue(obj, path) ==
    IF path = <<>> THEN obj
    ELSE LET current == GetNestedValue(obj, SubSeq(path, 1, Len(path) - 1))
             key == path[Len(path)]
         IN  IF Truthy(current) /\ GetProp(current, key).t # "undefined"
             THEN GetProp(current, key)
             ELSE Undefined

\* a !== b of two values that are not the same object: objects, arrays and
\* functions are compared by reference
StrictlyUnequal(a, b) ==
    IF a.t # b.t THEN TRUE
    ELSE IF a.t \in {"object", "array", "function"} THEN TRUE
    ELSE a.v # b.v

\* String.prototype.toLowerCase on the header names drawn
LowerCase ==
    [n \in {"Content-Type", "content-type", "X-Id"} |->
        IF n = "X-Id" THEN "x-id" ELSE "content-type"]

Returned == [status |-> "returned", message |-> "none", detail |-> <<>>]
Raise(msg, detail) == [status |-> "raised", message |-> msg, detail |-> detail]

\* as Invalid, the result rejected only when its valid is false itself
InvalidOnlyIfFalse(result) ==
    GetProp(result, "valid").t = "boolean" /\ ~GetProp(result, "valid").v

\* the custom branch of executeAssertion: !result.valid
Invalid(result) == ~Truthy(GetProp(result, "valid"))

\* executeAssertion once the subject has been looked up: response is
\* testContext[assertion.target] || testContext.lastResponse
ExecuteAssertion(assertion, response) ==
    IF "status" \notin DOMAIN response
    THEN Raise(NoResponseError, <<>>)
    ELSE IF assertion.type = "status"
    THEN IF StrictlyUnequal(Val("number", response.status), assertion.expected)
         THEN Raise("Status assertion failed", <<ToString(response.status)>>)
         ELSE Returned
    ELSE IF assertion.type = "header"
    THEN LET headerValue == Get(response.headers, LowerCase[assertion.header])
         IN  IF StrictlyUnequal(headerValue, assertion.expected)
             THEN Raise("Header assertion failed", Stringify(headerValue))
             ELSE Returned
    ELSE IF assertion.type = "body"
    THEN LET actualValue == GetNestedValue(response.data, assertion.path)
         IN  IF StrictlyUnequal(actualValue, assertion.expected)
             THEN Raise("Body assertion failed", Stringify(actualValue))
             ELSE Returned
    ELSE IF assertion.type = "schema"
    THEN IF response.conforms THEN Returned ELSE Raise("Schema validation failed", <<>>)
    ELSE IF assertion.type = "performance"
    THEN IF response.duration > assertion.maxDuration
         THEN Raise("Performance assertion failed", <<ToString(response.duration)>>)
         ELSE Returned
    ELSE IF assertion.type = "custom"
    THEN IF assertion.validator.t # "function" THEN Returned
         ELSE LET result == assertion.validator.v[response.status]
              IN  IF result.t \in {"undefined", "null"}
                  THEN Raise(UndefinedError, <<>>)
                  ELSE IF Invalid(result)
                  THEN Raise("Custom assertion failed",
                             Stringify(GetProp(result, "message")))
                  ELSE Returned
    ELSE Raise("Unknown assertion type", <<>>)

CallExecuteAssertion ==
    /\ fnPc = "called"
    /\ fnName = "executeAssertion"
    /\ fnRet' = ExecuteAssertion(fnArgs.assertion, fnArgs.response)
    /\ fnPc' = "returned"
    /\ UNCHANGED <<fnName, fnArgs>>
    /\ UNCHANGED <<engineVars, dashVars, apiVars, loadVars, sideVars>>

-----------------------------------------------------------------------------
(* APITester.runLoadTest: numbers, workers, summary *)

\* A JavaScript number: a finite ratio of two integers, or NaN, Infinity,
\* -Infinity; "undefined" stands for a property that has not been assigned.
Ratio(n, d) == [kind |-> "finite", num |-> n, den |-> d]
NotFinite(k) == [kind |-> k, num |-> 0, den |-> 1]

\* a / b of two numbers that are finite or undefined
Divide(a, b) ==
    IF a.kind # "finite" \/ b.kind # "finite" THEN NotFinite("NaN")
    ELSE IF b.num = 0
    THEN IF a.num = 0 THEN NotFinite("NaN") ELSE NotFinite("Infinity")
    ELSE Ratio(a.num * b.den, a.den * b.num)

PauseMs == 100       \* createLoadTestWorker: await this.wait(100)
MsPerSecond == 1000  \* calculateLoadTestSummary: results.actualDuration / 1000

\* the first step of the load test: a request without responseSchema
LoadStep ==
    [type |-> "request", continueOnFailure |-> FALSE, responseSchema |-> FALSE,
     saveAs |-> "none", target |-> "none"]

Workers == 1 .. ltOptions.concurrency
EndTime == ltOptions.duration

\* as Offset, the workers counted from 1
OffsetFromOne(i) == ((i + 1) * ltOptions.rampUp) \div ltOptions.concurrency

\* the delay of the timer that starts worker number i, counted from 0
Offset(i) == (i * ltOptions.rampUp) \div ltOptions.concurrency

NewSummary ==
    [totalRequests |-> 0, successfulRequests |-> 0, failedRequests |-> 0,
     averageResponseTime |-> Ratio(0, 1), minResponseTime |-> NotFinite("Infinity"),
     maxResponseTime |-> Ratio(0, 1), requestsPerSecond |-> Ratio(0, 1)]

RECURSIVE SumDurations(_)
SumDurations(rs) == IF rs = <<>> THEN 0 ELSE Head(rs).duration + SumDurations(Tail(rs))

\* Math.min(...durations) and Math.max(...durations)
Extreme(rs, least) ==
    IF rs = <<>> THEN NotFinite(IF least THEN "Infinity" ELSE "-Infinity")
    ELSE Ratio(CHOOSE d \in {rs[k].duration : k \in 1 .. Len(rs)} :
                   \A k \in 1 .. Len(rs) :
                       IF least THEN d <= rs[k].duration ELSE d >= rs[k].duration,
               1)

CalculateLoadTestSummary(rs, duration) ==
    [totalRequests |-> Len(rs),
     successfulRequests |-> Cardinality({k \in 1 .. Len(rs) : rs[k].success}),
     failedRequests |-> Len(rs) - Cardinality({k \in 1 .. Len(rs) : rs[k].success}),
     averageResponseTime |-> Divide(Ratio(SumDurations(rs), 1), Ratio(Len(rs), 1)),
     minResponseTime |-> Extreme(rs, TRUE),
     maxResponseTime |-> Extreme(rs, FALSE),
     requestsPerSecond |->
         Divide(Ratio(Len(rs), 1), Divide(duration, Ratio(MsPerSecond, 1)))]

\* the synchronous part of runLoadTest: the timers are set, and Promise.all is
\* handed the workers array as it is then
RunLoadTest ==
    /\ ltPc = "idle"
    /\ ltPc' = "awaiting"
    /\ wPc' = [i \in Workers |-> "scheduled"]
    /\ awaited' = workers
    /\ UNCHANGED <<ltOptions, now, workers, wAttempt, wSent, wTimer, requests,
                   summary, actualDuration>>
    /\ UNCHANGED <<engineVars, dashVars, apiVars, fnVars, sideVars>>

AllSettled(ws) == \A k \in 1 .. Len(ws) : wPc[ws[k]] \in {"done", "rejected"}

\* the continuation of await Promise.all(workers) is due: it runs before any
\* timer callback does
ContinuationDue == ltPc = "awaiting" /\ AllSettled(awaited)

\* the rest of runLoadTest: the summary, then actualDuration, then the return
LoadTestReturn ==
    /\ ContinuationDue
    /\ summary' = CalculateLoadTestSummary(requests, actualDuration)
    /\ actualDuration' = Ratio(now, 1)
    /\ ltPc' = "returned"
    /\ UNCHANGED <<ltOptions, now, awaited, workers, wPc, wAttempt, wSent, wTimer,
                   requests>>
    /\ UNCHANGED <<engineVars, dashVars, apiVars, fnVars, sideVars>>

\* Worker i is at the head of its while loop: past the deadline it ends; before
\* it makeRequest is entered, which issues the first call, or with no attempt
\* allowed throws undefined, whose message the catch block cannot read.
WorkerLoop(i) ==
    /\ wAttempt' = [wAttempt EXCEPT ![i] = 0]
    /\ wSent' = [wSent EXCEPT ![i] = now]
    /\ wPc' = [wPc EXCEPT ![i] =
                  IF now >= EndTime THEN "done"
                  ELSE IF RetryLeft(0, apiConfig) THEN "calling"
                  ELSE "rejected"]

\* the timer of worker i fires: createLoadTestWorker runs up to its first
\* await and the promise is pushed
WorkerStart(i) ==
    /\ ~ContinuationDue
    /\ wPc[i] = "scheduled"
    /\ now >= Offset(i - 1)
    /\ WorkerLoop(i)
    /\ workers' = Append(workers, i)
    /\ UNCHANGED <<ltOptions, ltPc, now, awaited, wTimer, requests, summary,
                   actualDuration>>
    /\ UNCHANGED <<engineVars, dashVars, apiVars, fnVars, sideVars>>

\* the call of worker i settles with outcome o: the response is logged, or the
\* failed attempt is counted and retried after the backoff, or its error is
\* logged; after a record is pushed the worker waits PauseMs
WorkerClientReturn(i, o) ==
    /\ ~ContinuationDue
    /\ wPc[i] = "calling"
    /\ LET err == AttemptError(LoadStep, apiConfig, o, 0)
       IN  IF err # NoErr /\ RetryLeft(wAttempt[i] + 1, apiConfig)
           THEN /\ wAttempt' = [wAttempt EXCEPT ![i] = @ + 1]
                /\ wTimer' = [wTimer EXCEPT ![i] = now + Delay(wAttempt[i] + 1)]
                /\ wPc' = [wPc EXCEPT ![i] = "backoff"]
                /\ UNCHANGED requests
           ELSE /\ requests' = Append(requests,
                       IF err = NoErr
                       THEN [status |-> o.status, duration |-> now - wSent[i],
                             success |-> o.status >= 200 /\ o.status < 400]
                       ELSE [status |-> 0, duration |-> 0, success |-> FALSE])
                /\ wTimer' = [wTimer EXCEPT ![i] = now + PauseMs]
                /\ wPc' = [wPc EXCEPT ![i] = "pausing"]
                /\ UNCHANGED wAttempt
    /\ UNCHANGED <<ltOptions, ltPc, now, awaited, workers, wSent, summary,
                   actualDuration>>
    /\ UNCHANGED <<engineVars, dashVars, apiVars, fnVars, sideVars>>

\* a wait of worker i is over: the backoff of makeRequest is followed by the
\* next call, the pause by the next check of the while loop
WorkerWake(i) ==
    /\ ~ContinuationDue
    /\ wPc[i] \in {"backoff", "pausing"}
    /\ now >= wTimer[i]
    /\ IF wPc[i] = "backoff"
       THEN /\ wPc' = [wPc EXCEPT ![i] = "calling"]
            /\ wSent' = [wSent EXCEPT ![i] = now]
            /\ UNCHANGED wAttempt
       ELSE WorkerLoop(i)
    /\ UNCHANGED <<ltOptions, ltPc, now, awaited, workers, wTimer, requests,
                   summary, actualDuration>>
    /\ UNCHANGED <<engineVars, dashVars, apiVars, fnVars, sideVars>>

\* the times at which something is due: the timers set, and the deadline
\* while it is ahead
DueTimes ==
    {Offset(i - 1) : i \in {w \in Workers : wPc[w] = "scheduled"}}
    \cup {wTimer[i] : i \in {w \in Workers : wPc[w] \in {"backoff", "pausing"}}}
    \cup {t \in {EndTime} : t > now}

\* the clock advances to the next time at which something is due: a timer
\* callback runs as soon as its timer is due, a call in flight may settle at
\* any of these times
TimePasses ==
    /\ ltPc \in {"awaiting", "returned"}
    /\ ~ContinuationDue
    /\ \E t \in DueTimes :
          /\ t > now
          /\ \A u \in DueTimes : u >= t
          /\ now' = t
    /\ UNCHANGED <<ltOptions, ltPc, awaited, workers, wPc, wAttempt, wSent, wTimer,
                   requests, summary, actualDuration>>
    /\ UNCHANGED <<engineVars, dashVars, apiVars, fnVars, sideVars>>

InitLoadTest(opts, at) ==
    /\ ltOptions = opts
    /\ ltPc = at
    /\ now = 0
    /\ awaited = <<>>
    /\ workers = <<>>
    /\ wPc = [i \in 1 .. opts.concurrency |-> "none"]
    /\ wAttempt = [i \in 1 .. opts.concurrency |-> 0]
    /\ wSent = [i \in 1 .. opts.concurrency |-> 0]
    /\ wTimer = [i \in 1 .. opts.concurrency |-> 0]
    /\ requests = <<>>
    /\ summary = NewSummary
    /\ actualDuration = NotFinite("undefined")

\* no runLoadTest invocation is made
LoadUnused == InitLoadTest([concurrency |-> 0, duration |-> 0, rampUp |-> 0], "unused")

\* neither a helper nor runLoadTest is called
\* none of the other operations is called
SideUnused == CallersUnused /\ BootUnused

AuxUnused == FnUnused /\ LoadUnused /\ SideUnused

-----------------------------------------------------------------------------
(* Specifications *)

vars == <<engineVars, dashVars, apiVars, auxVars>>

\* the browser types initialize() may have launched, in configuration order
BrowserSets == {<<BrowserTypes[1]>>, <<BrowserTypes[2]>>, BrowserTypes}

InitEngine(bs, ts, at) ==
    /\ browsers = bs
    /\ tests = ts
    /\ rtPc = at
    /\ isRunning = FALSE
    /\ results = <<>>
    /\ pc = [p \in 1 .. Len(bs) * Len(ts) |-> "notStarted"]
    /\ ctx = [p \in 1 .. Len(bs) * Len(ts) |-> "none"]
    /\ idx = [p \in 1 .. Len(bs) * Len(ts) |-> 0]
    /\ testResult = [p \in 1 .. Len(bs) * Len(ts) |-> NoResult]
    /\ reason = [p \in 1 .. Len(bs) * Len(ts) |-> "none"]
    /\ started = [p \in 1 .. Len(bs) * Len(ts) |-> <<>>]
    /\ events = <<>>

InitDashboard ==
    /\ activeTests = {}
    /\ ioEvents = <<>>
    /\ testResults = <<>>
    /\ arrived = 0
    /\ progress = <<>>
    /\ answers = <<>>

\* no runTests invocation is made
EngineUnused == InitEngine(<<>>, <<>>, "unused")

DefaultApiConfig == [retries |-> MaxRetries, validateSchema |-> TRUE]

InitApiTester(cfg, ep, t, at) ==
    /\ apiConfig = cfg
    /\ endpoint = ep
    /\ apiTest = t
    /\ apiPc = at
    /\ apiIdx = 0
    /\ apiResult = NoResult
    /\ attempt = 0
    /\ lastError = NoErr
    /\ calls = [i \in 1 .. Len(t.steps) |-> 0]
    /\ delays = [i \in 1 .. Len(t.steps) |-> <<>>]
    /\ thrown = [i \in 1 .. Len(t.steps) |-> NoErr]
    /\ apiStarted = <<>>
    /\ apiOutcomes = <<>>

\* no runAPITest invocation is made
ApiUnused ==
    InitApiTester(DefaultApiConfig, <<TransportFailure>>, [steps |-> <<>>], "unused")

RECURSIVE TotalSteps(_)
TotalSteps(ts) ==
    IF ts = <<>> THEN 0 ELSE Len(Head(ts).steps) + TotalSteps(Tail(ts))

\* the batches drawn: a batch of n tests holds at most MaxSteps + 1 - n steps
Batches ==
    UNION {{ts \in [1 .. n -> TestDefs] : TotalSteps(ts) + n <= MaxSteps + 1} :
           n \in BatchSizes}

\* the invocations drawn: pairings x steps of the batch is at most 2 * MaxSteps
Init ==
    /\ \E bs \in BrowserSets : \E ts \in Batches :
           /\ Len(bs) * Len(ts) * TotalSteps(ts) <= 2 * MaxSteps
           /\ InitEngine(bs, ts, "idle")
    /\ InitDashboard
    /\ ApiUnused
    /\ AuxUnused

NextEngine ==
    \/ RunTests
    \/ \E p \in Pairings : \E ok \in BOOLEAN : NewContext(p, ok)
    \/ \E p \in Pairings : \E ok \in BOOLEAN : NewPage(p, ok)
    \/ \E p \in Pairings : \E ok \in BOOLEAN : StepEnd(p, ok)
    \/ \E p \in Pairings : \E ok \in BOOLEAN : Screenshot(p, ok)
    \/ \E p \in Pairings : \E ok \in BOOLEAN : Close(p, ok)
    \/ RunTestsSettle

Next == NextEngine

Spec == Init /\ [][Next]_vars

\* one pairing, with the Dashboard registry served beside it
InitCancel ==
    /\ \E ts \in [1 .. 1 -> TestDefs] : InitEngine(<<BrowserTypes[1]>>, ts, "idle")
    /\ InitDashboard
    /\ ApiUnused
    /\ AuxUnused

NextCancel ==
    \/ NextEngine
    \/ \E id \in 1 .. NumTests : BroadcastTestStart(id)
    \/ \E id \in 1 .. NumTests : StopTest(id)
    \/ \E id \in 1 .. NumTests : BroadcastTestComplete(id)

SpecCancel == InitCancel /\ [][NextCancel]_vars

\* the Dashboard on its own
InitBoard ==
    /\ EngineUnused /\ InitDashboard /\ ApiUnused /\ AuxUnused

TestIds == {1, 2}

NextRegistry ==
    \/ \E id \in TestIds : BroadcastTestStart(id)
    \/ \E id \in TestIds : StopTest(id)
    \/ \E id \in TestIds : BroadcastTestComplete(id)
    \/ \E id \in TestIds : \E pr \in {"half", "done"} : BroadcastTestProgress(id, pr)

SpecRegistry == InitBoard /\ [][NextRegistry]_vars

\* the lengths of the arrays handed to broadcastResults
ArrayLengths == {0, 1, 2, 3, 500, 999, 1000, 1001}

SpecResults == InitBoard /\ [][\E n \in ArrayLengths : BroadcastResults(n)]_vars

\* a new core with its config.browsers, initialized and cleaned up
InitLifecycle ==
    /\ InitEngine(<<>>, <<>>, "unused")
    /\ \E cfg \in SeqsUpTo({BrowserTypes[1], BrowserTypes[2], Unsupported}, MaxBrowsers) :
           InitBoot(cfg, "new")
    /\ InitDashboard /\ ApiUnused /\ FnUnused /\ LoadUnused /\ CallersUnused

NextLifecycle ==
    \/ Initialize
    \/ \E ok \in BOOLEAN : LaunchSettles(ok)
    \/ Cleanup
    \/ \E ok \in BOOLEAN : CloseSettles(ok)

SpecLifecycle == InitLifecycle /\ [][NextLifecycle]_vars

\* the handler of a custom step: a function, the name of one (a string, as in
\* the tests generateAccessibilityTests and generatePerformanceTests make), or
\* none
CustomSteps ==
    [kind : {"custom"}, continueOnFailure : BOOLEAN,
     handler : {"function", "string", "missing"}]

\* one pairing, its test made of custom steps
InitCustom ==
    /\ \E t \in [steps : SeqsUpTo(CustomSteps, MaxSteps)] :
           InitEngine(<<BrowserTypes[1]>>, <<t>>, "idle")
    /\ InitDashboard /\ ApiUnused /\ AuxUnused

SpecCustom == InitCustom /\ [][NextEngine]_vars

\* two callers of runTests on one core, each with a batch of its own, of at
\* most four pairings together
InitTwoCallers ==
    /\ \E bs \in BrowserSets : \E n \in [Callers -> BatchSizes] :
           /\ Len(bs) * (n[1] + n[2]) <= 4
           /\ InitEngine(bs, <<>>, "unused")
           /\ InitCallers(bs, n, "idle")
    /\ InitDashboard /\ ApiUnused /\ FnUnused /\ LoadUnused /\ BootUnused

NextTwoCallers ==
    \/ \E k \in Callers : CallRunTests(k)
    \/ \E k \in Callers : \E p \in 1 .. 4 : \E o \in {"passed", "failed", "rejected"} :
          ExecuteTestSettles(k, p, o)
    \/ \E k \in Callers : \E ok \in BOOLEAN : ResumeRunTests(k, ok)

SpecTwoCallers == InitTwoCallers /\ [][NextTwoCallers]_vars

ApiConfigs == [retries : 0 .. MaxRetries, validateSchema : BOOLEAN]

\* a test of one request step against every endpoint, and every test against
\* the endpoints that answer each call alike
ApiInputs ==
    {[t |-> t, ep |-> ep] :
        t \in {d \in ApiTestDefs : Len(d.steps) = 1 /\ d.steps[1].type = "request"},
        ep \in [1 .. MaxRetries -> Outcomes]}
    \cup {[t |-> t, ep |-> <<o>>] : t \in ApiTestDefs, o \in Outcomes}

InitApi ==
    /\ EngineUnused
    /\ InitDashboard
    /\ \E cfg \in ApiConfigs : \E in \in ApiInputs : InitApiTester(cfg, in.ep, in.t, "idle")
    /\ AuxUnused

NextApi ==
    \/ RunAPITest
    \/ ClientReturn
    \/ WaitDone
    \/ \E ok \in BOOLEAN : ApiStepEnd(ok)

SpecApi == InitApi /\ [][NextApi]_vars

\* tests of request steps that save the response under no name, under a name
\* of their own, or under the name of a field of the testResult
SaveAsTests ==
    [steps : SeqsUpTo({s \in [type : {"request"}, continueOnFailure : BOOLEAN,
                              responseSchema : {FALSE},
                              saveAs : SlotNames \cup {"requests"},
                              target : {"none"}] : TRUE}, MaxSteps)]

InitSaveAs ==
    /\ EngineUnused
    /\ InitDashboard
    /\ \E cfg \in ApiConfigs : \E t \in SaveAsTests : \E o \in Outcomes :
           InitApiTester(cfg, <<o>>, t, "idle")
    /\ AuxUnused

SpecSaveAs == InitSaveAs /\ [][NextApi]_vars

\* either runner alone: one pairing of runTests, or one runAPITest
InitRunners ==
    \/ InitCancel
    \/ InitApi

NextRunners == NextEngine \/ NextApi

SpecRunners == InitRunners /\ [][NextRunners]_vars

-----------------------------------------------------------------------------
(* interpolateVariables called on its own *)

MaxParts == 3        \* most pieces a template is made of

Placeholder(w) == <<"{", "{", w, "}", "}">>

\* what templates are made of: placeholders, and loose characters
Pieces ==
    {Placeholder("a"), Placeholder("b"), Placeholder("c"), Placeholder("constructor"),
     <<"-">>, <<"{">>, <<"}">>, <<"a">>}

RECURSIVE Flatten(_)
Flatten(ps) == IF ps = <<>> THEN <<>> ELSE Head(ps) \o Flatten(Tail(ps))

Templates == {Flatten(ps) : ps \in SeqsUpTo(Pieces, MaxParts)}

StoreKeys == {"a", "b"}
StoreValues ==
    {Val("string", <<"x">>), Val("string", <<"y">>), Val("string", <<>>),
     Val("number", 0), [t |-> "null", v |-> 0]}
Stores == UNION {[K -> StoreValues] : K \in SUBSET StoreKeys}

\* the leaves of the structured values drawn
Leaves ==
    {Val("string", Placeholder("a")), Val("string", Placeholder("c")),
     Val("string", <<"-">>), Val("number", 5), Undefined}

Structures ==
    {Val("array", s) : s \in SeqsUpTo(Leaves, 2)}
    \cup {Val("object", f) : f \in [{"url"} -> Leaves] \cup [{"url", "data"} -> Leaves]}
    \cup {Val("object", [data |-> Val("array", <<l>>)]) : l \in Leaves}

InterpolateInputs ==
    {[obj |-> o, context |-> c] :
        o \in {Val("string", s) : s \in Templates} \cup Structures
                 \cup {Undefined, Val("number", 5)},
        c \in Stores}

InitInterpolate ==
    /\ EngineUnused
    /\ InitDashboard
    /\ ApiUnused
    /\ \E in \in InterpolateInputs : InitFn("interpolateVariables", in)
    /\ LoadUnused /\ SideUnused

NextInterpolate == CallInterpolateVariables

SpecInterpolate == InitInterpolate /\ [][NextInterpolate]_vars

-----------------------------------------------------------------------------
(* executeAssertion called on its own *)

MaxPath == 2         \* most keys of an assertion path

\* response bodies and the paths into them
Bodies ==
    {Val("object", [user |-> Val("object", [id |-> Val("number", 5)])]),
     Val("object", [user |-> Val("object", <<>>)]),
     Val("object", [user |-> Val("null", 0)]),
     Val("object", [user |-> Val("number", 0)]),
     Val("object", [token |-> Val("string", <<"a", "b">>)]),
     Val("object", [token |-> Val("string", <<>>)]),
     Undefined}

Paths == SeqsUpTo({"user", "id", "constructor"}, MaxPath) \ {<<>>}

Responses ==
    [status : {200, 500}, data : Bodies, conforms : BOOLEAN, duration : {0, 150},
     headers : {[n \in {"content-type"} |-> Val("string", <<"json">>)]}]

\* what a validator function returns when it is called; a validator is drawn
\* as the table of what it returns for each status of the response it is given
ValidatorResults ==
    {Undefined, Val("null", 0), Val("boolean", TRUE), Val("boolean", FALSE),
     Val("object", <<>>),
     Val("object", [valid |-> Val("boolean", TRUE)]),
     Val("object", [valid |-> Val("number", 1), message |-> Val("string", <<"fine">>)]),
     Val("object", [valid |-> Val("boolean", FALSE), message |-> Val("string", <<"bad">>)]),
     Val("object", [valid |-> Val("number", 0), message |-> Val("string", <<"zero">>)]),
     Val("object", [valid |-> Val("boolean", FALSE)])}

\* the expected of the example suite's token assertion:
\* (value) => typeof value === 'string' && value.length > 0
NonEmptyString(value) == value.t = "string" /\ Len(value.v) > 0

NoAssertion ==
    [type |-> "unknown", expected |-> Undefined, path |-> <<>>, header |-> "X-Id",
     maxDuration |-> 0, validator |-> Undefined]

Assertions ==
    {[NoAssertion EXCEPT !.type = "status", !.expected = e] :
        e \in {Val("number", 200), Val("string", <<"200">>)}}
    \cup {[NoAssertion EXCEPT !.type = "header", !.header = h, !.expected = e] :
             h \in DOMAIN LowerCase, e \in {Val("string", <<"json">>), Undefined}}
    \cup {[NoAssertion EXCEPT !.type = "body", !.path = p, !.expected = e] :
             p \in Paths,
             e \in {Undefined, Val("number", 5), Val("number", 6), Val("null", 0)}}
    \cup {[NoAssertion EXCEPT !.type = "body", !.path = <<"token">>,
                               !.expected = Val("function", "nonEmptyString")]}
    \cup {[NoAssertion EXCEPT !.type = "schema"]}
    \cup {[NoAssertion EXCEPT !.type = "performance", !.maxDuration = d] : d \in {100, 200}}
    \cup {[NoAssertion EXCEPT !.type = "custom", !.validator = v] :
             v \in {Val("function", f) : f \in [{200, 500} -> ValidatorResults]}
                   \cup {Undefined, Val("string", <<"checkIt">>)}}
    \cup {NoAssertion}

InitAssertion ==
    /\ EngineUnused
    /\ InitDashboard
    /\ ApiUnused
    /\ \E a \in Assertions : \E r \in Responses \cup {Undefined} :
          InitFn("executeAssertion", [assertion |-> a, response |-> r])
    /\ LoadUnused /\ SideUnused

SpecAssertion == InitAssertion /\ [][CallExecuteAssertion]_vars

-----------------------------------------------------------------------------
(* runLoadTest *)

\* the options drawn, in ms: with rampUp 300 the second of two workers starts
\* at the deadline
LoadOptions == [concurrency : {1, 2}, duration : {0, 150}, rampUp : {0, 100, 300}]

InitLoad ==
    /\ EngineUnused
    /\ InitDashboard
    /\ \E cfg \in {c \in ApiConfigs : c.validateSchema /\ c.retries \in {0, 1, 2}} :
          InitApiTester(cfg, <<TransportFailure>>, [steps |-> <<>>], "unused")
    /\ FnUnused /\ SideUnused
    /\ \E opts \in LoadOptions : InitLoadTest(opts, "idle")

NextLoad ==
    \/ RunLoadTest
    \/ LoadTestReturn
    \/ \E i \in Workers : WorkerStart(i)
    \/ \E i \in Workers : \E o \in Outcomes : WorkerClientReturn(i, o)
    \/ \E i \in Workers : WorkerWake(i)
    \/ TimePasses

SpecLoad == InitLoad /\ [][NextLoad]_vars

\* the event loop runs what is due and the clock keeps advancing: timers fire,
\* calls settle (the client has a timeout), continuations run
SpecLoadFair == SpecLoad /\ WF_vars(NextLoad)

-----------------------------------------------------------------------------
(* AITestGenerator.generateTests *)

MaxTokens == 3       \* most words of a description drawn

\* loadTestPatterns in the order of Object.entries, each keyword as the
\* stemmer returns it
Patterns ==
    <<[name |-> "login", keywords |-> {"login", "signin", "authent", "credenti"}],
      [name |-> "registration",
       keywords |-> {"regist", "signup", "create account", "join"}],
      [name |-> "search", keywords |-> {"search", "find", "queri", "lookup"}],
      [name |-> "form", keywords |-> {"form", "submit", "input", "valid"}],
      [name |-> "navigation", keywords |-> {"navig", "menu", "link", "page"}]>>

\* the score of the stemmed tokens against the stemmed keywords of a pattern:
\* 1 for each token and keyword that are equal, 0.5 for each that are not but
\* whose JaroWinklerDistance is above 0.8, which among the stems drawn are
\* signin and signup only; the sum, counted in halves, over the longer length
CalculatePatternScore(tokens, keywords) ==
    LET near == {<<"signin", "signup">>, <<"signup", "signin">>}
        pairs == (1 .. Len(tokens)) \X keywords
        equal == {tk \in pairs : tokens[tk[1]] = tk[2]}
        close == {tk \in pairs : <<tokens[tk[1]], tk[2]>> \in near}
    IN  Ratio(2 * Cardinality(equal) + Cardinality(close),
              2 * (IF Len(tokens) > Cardinality(keywords) THEN Len(tokens)
                   ELSE Cardinality(keywords)))

\* the patterns whose score is above 0.3, by descending score; sort is stable
FindMatchingPatterns(tokens) ==
    LET score(i) == CalculatePatternScore(tokens, Patterns[i].keywords)
        matches == {i \in DOMAIN Patterns : 10 * score(i).num > 3 * score(i).den}
        sorted == CHOOSE s \in [1 .. Cardinality(matches) -> matches] :
                      \A a, b \in DOMAIN s :
                          a < b =>
                              LET x == score(s[a])
                                  y == score(s[b])
                              IN  \/ x.num * y.den > y.num * x.den
                                  \/ x.num * y.den = y.num * x.den /\ s[a] < s[b]
    IN  [j \in DOMAIN sorted |->
            [name |-> Patterns[sorted[j]].name, score |-> score(sorted[j])]]

\* generateTests with this.model null: one test per matching pattern
\* (generateTestFromPattern), followed by the edge cases of generateEdgeCases:
\* the negative test of each login test (createNegativeTest) and the boundary
\* test of each form test (createBoundaryTest), which copy the base test
GenerateTests(tokens) ==
    LET matchedPatterns == FindMatchingPatterns(tokens)
        generatedTests ==
            [j \in DOMAIN matchedPatterns |->
                [pattern |-> matchedPatterns[j].name,
                 confidence |-> matchedPatterns[j].score, testType |-> "none"]]
        withEdgeCase == SelectSeq(generatedTests,
                                  LAMBDA t : t.pattern \in {"login", "form"})
        edgeCaseTests ==
            [j \in DOMAIN withEdgeCase |->
                [withEdgeCase[j] EXCEPT
                    !.testType = IF withEdgeCase[j].pattern = "login"
                                 THEN "negative" ELSE "boundary"]]
    IN  generatedTests \o edgeCaseTests

\* generateTests(description): the description is the sequence of its words in
\* lower case, as the tokenizer returns them; each is stemmed
CallGenerateTests ==
    /\ fnPc = "called"
    /\ fnName = "generateTests"
    /\ LET stem(w) == IF w = "logins" THEN "login"
                      ELSE IF w = "credentials" THEN "credenti" ELSE w
       IN  fnRet' = GenerateTests([i \in DOMAIN fnArgs |-> stem(fnArgs[i])])
    /\ fnPc' = "returned"
    /\ UNCHANGED <<fnName, fnArgs>>
    /\ UNCHANGED <<engineVars, dashVars, apiVars, loadVars, sideVars>>

\* generateTests called on its own, on every description of up to MaxTokens
\* of the words drawn
InitGenerate ==
    /\ EngineUnused
    /\ InitDashboard
    /\ ApiUnused
    /\ LoadUnused /\ SideUnused
    /\ \E description \in
           SeqsUpTo({"test", "user", "login", "logins", "credentials", "signup",
                     "search", "find", "form"}, MaxTokens) :
           InitFn("generateTests", description)

SpecGenerate == InitGenerate /\ [][CallGenerateTests]_vars

-----------------------------------------------------------------------------
(* Properties of the two runners *)

Range(s) == {s[i] : i \in 1 .. Len(s)}

\* step k of a run is its first failed step without continueOnFailure
FirstBlocking(steps, outcomes, k) ==
    /\ k <= Len(outcomes)
    /\ outcomes[k].status = "failed" /\ ~steps[k].continueOnFailure
    /\ \A j \in 1 .. k - 1 : ~(outcomes[j].status = "failed" /\ ~steps[j].continueOnFailure)

ApiRecorded == Range(apiResult.requests) \cup Range(apiResult.assertions)

\* C1 (as claimed, for runAPITest): when step k is the first step that fails
\* with continueOnFailure unset, no step after k is executed, the outcomes the
\* test records are exactly those of steps 1..k, and the test ends failed.
C1_ApiFailFastRecorded ==
    apiPc = "done" =>
        \A k \in 1 .. Len(apiTest.steps) :
            FirstBlocking(apiTest.steps, apiOutcomes, k) =>
                /\ apiStarted = [j \in 1 .. k |-> j]
                /\ apiResult.status = "failed"
                /\ Len(apiResult.requests) + Len(apiResult.assertions) = k
                /\ \A j \in 1 .. k : apiOutcomes[j] \in ApiRecorded

\* the try block of a pairing's executeTest is over
EngineTerminal(p) == pc[p] \in {"screenshot", "close", "fulfilled"}
                     \/ (pc[p] = "rejected" /\ reason[p] = CloseError)

SomeBlockingFailure(steps, outcomes) ==
    \E j \in 1 .. Len(outcomes) :
        outcomes[j].status = "failed" /\ ~steps[j].continueOnFailure

\* a call of the step interpreter returned no outcome: it raised
Raised(startedSteps, outcomes) == Len(startedSteps) > Len(outcomes)

FinalStatusRule(status, steps, outcomes, startedSteps) ==
    /\ status \in {"passed", "failed"}
    /\ status = "failed" <=>
           (SomeBlockingFailure(steps, outcomes) \/ Raised(startedSteps, outcomes))
    /\ status = "passed" => Len(outcomes) = Len(steps)
    /\ steps = <<>> => status = "passed" /\ outcomes = <<>>

\* C2: a finished test execution is failed iff some step without
\* continueOnFailure failed or an error propagated out of the step
\* interpreter, and passed otherwise; a passed test ran every step, and a test
\* without steps ends passed with no outcome recorded.
C2_FinalStatus ==
    /\ \A p \in Pairings :
          EngineTerminal(p) =>
              FinalStatusRule(testResult[p].status, TestOf(p).steps,
                              testResult[p].steps, started[p])
    /\ apiPc = "done" =>
          /\ FinalStatusRule(apiResult.status, apiTest.steps, apiOutcomes, apiStarted)
          /\ apiTest.steps = <<>> =>
                apiResult.requests = <<>> /\ apiResult.assertions = <<>>

\* a test whose two steps both failed under continueOnFailure ended passed
C2_Witness ==
    \E p \in Pairings :
        /\ pc[p] = "fulfilled"
        /\ testResult[p].status = "passed"
        /\ Len(testResult[p].steps) = 2
        /\ \A j \in 1 .. 2 : testResult[p].steps[j].status = "failed"

\* C3 (as claimed): once executeTest has settled, every context it acquired
\* has had close called on it.
C3_ContextReleased ==
    \A p \in Pairings :
        (pc[p] \in {"fulfilled", "rejected"} /\ ctx[p] # "none")
            => ctx[p] \in {"closed", "closeFailed"}

TestCompletedFor(p) ==
    {i \in 1 .. Len(events) : events[i].type = "testCompleted" /\ events[i].pairing = p}

\* C5 (as claimed): when runTests returns, testCompleted has been emitted for
\* every pairing of the batch.
C5_EveryPairingNotified ==
    rtPc = "returned" => \A p \in Pairings : TestCompletedFor(p) # {}

Stopped(id) ==
    /\ id \notin activeTests
    /\ \E i \in 1 .. Len(ioEvents) :
          ioEvents[i].type = "testStopped" /\ ioEvents[i].testId = id

\* C7 (as claimed): while a step of a test is in flight and the test's id has
\* been stopped in the registry, the runner starts no further step of it.
C7_NoStepAfterStop ==
    [][\A p \in Pairings :
          (pc[p] = "inStep" /\ Stopped(TestId(p))) => started'[p] = started[p]]_vars

-----------------------------------------------------------------------------
(* Properties of makeRequest *)

\* executeAPIStep has been called on request step i and has settled
RequestFinished(i) ==
    /\ i \in Range(apiStarted)
    /\ apiTest.steps[i].type = "request"
    /\ apiIdx > i \/ apiPc = "done"

\* the number of the call that is attempt k of step i, and what it meets
CallNumber(i, k) == SumTo(calls, i - 1) + k
Answer(c) == endpoint[((c - 1) % Len(endpoint)) + 1]

\* attempt k of step i fails: no response, or a response whose body the
\* step's responseSchema rejects
Fails(i, k) ==
    LET o == Answer(CallNumber(i, k))
    IN  \/ o.status = 0
        \/ apiTest.steps[i].responseSchema /\ apiConfig.validateSchema /\ ~o.conforms

FailureMessage(i, k) ==
    IF Answer(CallNumber(i, k)).status = 0 THEN "Network Error"
    ELSE "Schema validation failed"

\* C8: a request whose every attempt fails is attempted exactly
\* config.retries times, then makeRequest raises, and what it raises is the
\* error of the last attempt.
C8_RaisesAfterBudget ==
    \A i \in 1 .. Len(apiTest.steps) :
        LET n == apiConfig.retries
        IN  (RequestFinished(i) /\ \A k \in 1 .. n : Fails(i, k)) =>
                /\ calls[i] = n
                /\ n >= 1 =>
                      /\ thrown[i] = [message |-> FailureMessage(i, n),
                                      call |-> CallNumber(i, n)]
                      /\ Len(apiOutcomes) >= i
                      /\ apiOutcomes[i].status = "failed"
                      /\ apiOutcomes[i].error = FailureMessage(i, n)
                /\ n = 0 => Len(apiOutcomes) < i

\* three attempts failed and the error of the third was raised
C8_Witness ==
    /\ apiPc = "done"
    /\ apiConfig.retries = 3
    /\ Len(apiTest.steps) = 1
    /\ calls[1] = 3
    /\ thrown[1].call = 3
    /\ apiOutcomes[1].status = "failed"

RECURSIVE SumSeq(_)
SumSeq(s) == IF s = <<>> THEN 0 ELSE Head(s) + SumSeq(Tail(s))

\* C9: a request that fails m times, m below config.retries, and then succeeds
\* returns that response after exactly m + 1 calls, having waited
\* 2^k * 1000 ms after the k-th failure, 2^1 + ... + 2^m seconds in all.
C9_BackoffSchedule ==
    \A i \in 1 .. Len(apiTest.steps) :
        \A m \in 0 .. apiConfig.retries - 1 :
            (/\ RequestFinished(i)
             /\ \A k \in 1 .. m : Fails(i, k)
             /\ ~Fails(i, m + 1)) =>
                /\ calls[i] = m + 1
                /\ Len(apiOutcomes) >= i
                /\ apiOutcomes[i].status = "passed"
                /\ apiOutcomes[i].response = Answer(CallNumber(i, m + 1)).status
                /\ delays[i] = [k \in 1 .. m |-> (2 ^ k) * 1000]
                /\ SumSeq(delays[i]) = (2 ^ (m + 1) - 2) * 1000

\* two failures, then the response: 2000 ms and 4000 ms were waited
C9_Witness ==
    /\ apiPc = "done"
    /\ Len(apiTest.steps) = 1
    /\ calls[1] = 3
    /\ apiOutcomes[1].status = "passed"
    /\ delays[1] = <<2000, 4000>>

\* one request step, a budget of three attempts, and an endpoint that answers
\* 500, 500 and then 200
Scenario500 ==
    /\ Len(apiTest.steps) = 1
    /\ apiTest.steps[1].type = "request"
    /\ apiConfig.retries = 3
    /\ Len(endpoint) >= 3
    /\ endpoint[1].status = 500 /\ endpoint[2].status = 500 /\ endpoint[3].status = 200
    /\ apiPc = "done"

\* C10 (as claimed): the step ends passed after exactly three calls.
C10_ThreeCalls ==
    Scenario500 =>
        /\ calls[1] = 3
        /\ apiOutcomes[1].status = "passed"

\* C10 (amended): a step whose responses are not checked against a
\* responseSchema ends passed after exactly one call, with the first 500
\* response as its response.
C10_OneCall ==
    (Scenario500 /\ ~(apiTest.steps[1].responseSchema /\ apiConfig.validateSchema)) =>
        /\ calls[1] = 1
        /\ delays[1] = <<>>
        /\ apiOutcomes[1].status = "passed"
        /\ apiOutcomes[1].response = 500

\* the scenario, run on a step without responseSchema: one call, answered 500
C10_Witness ==
    /\ Scenario500
    /\ ~apiTest.steps[1].responseSchema
    /\ calls[1] = 1
    /\ apiOutcomes[1].response = 500

C12_RetryOnlyOnTransport ==
    /\ \A i \in 1 .. Len(apiTest.steps) :
          \A k \in 1 .. calls[i] - 1 : Answer(CallNumber(i, k)) = TransportFailure
    /\ \A j, k \in 1 .. Len(apiStarted) : apiStarted[j] = apiStarted[k] => j = k

\* C13 (as claimed): every call of executeStep and of executeAPIStep returns a
\* step outcome, none raises: once a run is over each step it started has its
\* outcome, and every outcome is passed or failed with its endTime set.
C13_InterpreterNeverRaises ==
    /\ \A p \in Pairings :
          EngineTerminal(p) =>
              /\ ~Raised(started[p], testResult[p].steps)
              /\ \A j \in 1 .. Len(testResult[p].steps) :
                    /\ testResult[p].steps[j].status \in {"passed", "failed"}
                    /\ testResult[p].steps[j].ended
    /\ apiPc = "done" =>
          /\ ~Raised(apiStarted, apiOutcomes)
          /\ \A j \in 1 .. Len(apiOutcomes) :
                /\ apiOutcomes[j].status \in {"passed", "failed"}
                /\ apiOutcomes[j].ended

\* C14 (as claimed): a step whose action (type) the interpreter does not know
\* gets a failed outcome with the unknown-action error, is executed once with
\* no call retried for it, and ends its test failed whatever its
\* continueOnFailure flag is, no later step being run.
C14_UnknownIsFatal ==
    /\ \A p \in Pairings :
          EngineTerminal(p) =>
              \A j \in 1 .. Len(testResult[p].steps) :
                  TestOf(p).steps[j].kind = "unknown" =>
                      /\ testResult[p].steps[j].status = "failed"
                      /\ testResult[p].steps[j].error = UnknownActionError
                      /\ testResult[p].status = "failed"
                      /\ started[p] = [k \in 1 .. j |-> k]
    /\ apiPc = "done" =>
          \A j \in 1 .. Len(apiOutcomes) :
              apiTest.steps[j].type = "unknown" =>
                  /\ apiOutcomes[j].status = "failed"
                  /\ apiOutcomes[j].error = UnknownStepError
                  /\ calls[j] = 0
                  /\ apiResult.status = "failed"
                  /\ apiStarted = [k \in 1 .. j |-> k]

\* a request step before step j passed, having saved its response under name
\* (under any name or none when name is "any")
RespondedBefore(j, name) ==
    \E i \in 1 .. j - 1 :
        /\ apiTest.steps[i].type = "request"
        /\ apiOutcomes[i].status = "passed"
        /\ name # "any" => apiTest.steps[i].saveAs = name

\* C16 (as claimed): an assertion step finds its subject: the response saved
\* under its target by an earlier request step, and, when it names no target,
\* the most recent response of the test; after a request step that passed it
\* does not fail for lack of a subject.
C16_AssertionSubject ==
    \A j \in 1 .. Len(apiOutcomes) :
        LET step == apiTest.steps[j]
        IN  (/\ step.type = "assertion"
             /\ \/ step.target # "none" /\ RespondedBefore(j, step.target)
                \/ step.target = "none" /\ RespondedBefore(j, "any"))
                => apiOutcomes[j].error # NoResponseError

-----------------------------------------------------------------------------
(* Properties of the APITester helpers *)

\* the claimed result on a string, from position i on: an occurrence whose
\* identifier is a key of the store is replaced by the stringified stored
\* value, any other occurrence and any other character is kept
RECURSIVE ClaimedString(_, _, _)
ClaimedString(s, store, i) ==
    IF i > Len(s) THEN <<>>
    ELSE LET n == MatchAt(s, i)
         IN  IF n = 0
             THEN <<s[i]>> \o ClaimedString(s, store, i + 1)
             ELSE (IF KeyAt(s, i, n) \in DOMAIN store
                   THEN Stringify(store[KeyAt(s, i, n)])
                   ELSE SubSeq(s, i, i + n + 3))
                      \o ClaimedString(s, store, i + n + 4)

RECURSIVE Claimed(_, _)
Claimed(obj, store) ==
    IF obj.t = "string" THEN Val("string", ClaimedString(obj.v, store, 1))
    ELSE IF obj.t = "array"
    THEN Val("array", [k \in 1 .. Len(obj.v) |-> Claimed(obj.v[k], store)])
    ELSE IF obj.t = "object"
    THEN Val("object", [k \in DOMAIN obj.v |-> Claimed(obj.v[k], store)])
    ELSE obj

\* C15 (as claimed): interpolateVariables returns its argument with every
\* {{identifier}} whose identifier is defined in the store replaced by the
\* stringified stored value and every other {{identifier}} left as it is, in
\* strings and, recursively, in the members of sequences and objects.
C15_Interpolation ==
    (fnName = "interpolateVariables" /\ fnPc = "returned") =>
        fnRet = Claimed(fnArgs.obj, fnArgs.context)

\* the value at the end of path in obj: at each level the value of the key in
\* the object reached, undefined when the key is missing there
RECURSIVE Resolve(_, _)
Resolve(obj, path) ==
    IF path = <<>> THEN obj
    ELSE LET current == Resolve(obj, SubSeq(path, 1, Len(path) - 1))
             key == path[Len(path)]
         IN  IF current.t = "object" /\ key \in DOMAIN current.v
             THEN current.v[key]
             ELSE Undefined

\* C17 (as claimed): a body assertion evaluated on a response resolves its
\* dotted path in the response body, a key missing at any level resolving to
\* undefined; it passes iff the resolved value equals the expected value, and
\* when it fails it reports the resolved value as the actual value.
C17_BodyAssertion ==
    (/\ fnName = "executeAssertion"
     /\ fnPc = "returned"
     /\ fnArgs.assertion.type = "body"
     /\ "data" \in DOMAIN fnArgs.response) =>
        LET actual == Resolve(fnArgs.response.data, fnArgs.assertion.path)
            expected == fnArgs.assertion.expected
        IN  /\ fnRet.status = "returned" <=>
                   (actual.t = expected.t /\ actual.v = expected.v)
            /\ fnRet.status = "raised" =>
                   /\ fnRet.message = "Body assertion failed"
                   /\ fnRet.detail = Stringify(actual)

\* result.valid and result.message of what a predicate returned
Member(result, key) ==
    IF result.t = "object" /\ key \in DOMAIN result.v THEN result.v[key] ELSE Undefined

-----------------------------------------------------------------------------
(* Properties of runLoadTest *)

\* C19 (as claimed): once runLoadTest has computed the summary and returned,
\* every one of its workers has been started and has terminated, and the log
\* is complete: no record is appended any more, summary.totalRequests is the
\* length of the log.
C19_SummaryAfterWorkers ==
    ltPc = "returned" =>
        /\ Len(workers) = ltOptions.concurrency
        /\ \A i \in Workers : wPc[i] = "done"
        /\ summary.totalRequests = Len(requests)

\* C20 (as claimed): a summary computed over an empty log reports a
\* requestsPerSecond of zero, and neither quotient of the summary comes from a
\* division by zero or by a duration that is undefined: requestsPerSecond and
\* averageResponseTime are finite numbers.
C20_EmptyLogSummary ==
    (ltPc = "returned" /\ summary.totalRequests = 0) =>
        /\ summary.requestsPerSecond = Ratio(0, 1)
        /\ summary.averageResponseTime.kind = "finite"

\* runLoadTest has set its timers: one per worker, all still pending
ExactlyScheduled ==
    (ltPc = "idle" /\ ltPc' # "idle") =>
        /\ DOMAIN wPc' = 1 .. ltOptions.concurrency
        /\ \A i \in Workers : wPc'[i] = "scheduled"

\* worker i, counted from 0, starts when the clock is i*r/c past the run start
StartsAtOffset ==
    \A i \in Workers :
        (wPc[i] = "scheduled" /\ wPc'[i] # "scheduled") =>
            now * ltOptions.concurrency = (i - 1) * ltOptions.rampUp

\* the offsets are i*r/c, do not decrease with i and are r/c apart
EvenlySpaced ==
    \A i \in 0 .. ltOptions.concurrency - 1 :
        /\ Offset(i) * ltOptions.concurrency = i * ltOptions.rampUp
        /\ Offset(i) >= 0
        /\ i > 0 => /\ Offset(i) >= Offset(i - 1)
                    /\ (Offset(i) - Offset(i - 1)) * ltOptions.concurrency
                           = ltOptions.rampUp

\* C21 (as claimed): runLoadTest with concurrency c and ramp-up window r
\* schedules exactly c workers, worker i (from 0) at offset i*r/c; the offsets
\* increase with i, are evenly spaced by r/c, and all lie in [0, r).
C21_OffsetsInWindow ==
    [][/\ ExactlyScheduled
       /\ StartsAtOffset
       /\ EvenlySpaced
       /\ \A i \in 0 .. ltOptions.concurrency - 1 : Offset(i) < ltOptions.rampUp]_vars

\* C21 (amended): runLoadTest with concurrency c and ramp-up window r schedules
\* exactly c workers, worker i (from 0) at offset i*r/c; the offsets do not
\* decrease with i and are evenly spaced by r/c; they lie in [0, r) when r > 0,
\* and with r = 0 every offset is 0.
C21_Offsets ==
    [][/\ ExactlyScheduled
       /\ StartsAtOffset
       /\ EvenlySpaced
       /\ \A i \in 0 .. ltOptions.concurrency - 1 :
              IF ltOptions.rampUp > 0 THEN Offset(i) < ltOptions.rampUp
              ELSE Offset(i) = 0]_vars

\* the second of two workers has started 150 ms into a ramp-up of 300 ms
C21_Witness ==
    /\ ltOptions.concurrency = 2
    /\ ltOptions.rampUp = 300
    /\ wPc[2] \notin {"none", "scheduled"}
    /\ wSent[2] = 150
    /\ now = 150

\* there is a worker i and it is at one of the places named
WorkerAt(i, places) == IF i \in DOMAIN wPc THEN wPc[i] \in places ELSE FALSE

\* worker i is at the check of its while loop: its timer or its pause is over
AtLoopCheck(i) == wPc[i] \in {"scheduled", "pausing"} /\ wPc'[i] # wPc[i]

\* one step of worker i as claimed: an iteration begins only before the
\* deadline and every iteration begun issues the request; the check at or after
\* the deadline ends the worker; a record is appended when an iteration ends,
\* one at a time, and at no other moment
IterationStep(i) ==
    /\ (AtLoopCheck(i) /\ now < EndTime) => wPc'[i] = "calling"
    /\ (AtLoopCheck(i) /\ now >= EndTime) => wPc'[i] = "done"
    /\ wPc'[i] = "calling" => now < EndTime \/ wPc[i] \in {"calling", "backoff"}
    /\ (wPc[i] = "calling" /\ wPc'[i] = "pausing") =>
           Len(requests') = Len(requests) + 1

\* C22 (as claimed): a load-test worker begins a new iteration only while the
\* clock is before the deadline, appends exactly one record to the shared log
\* per iteration, and terminates at its first loop check at or after the
\* deadline; with the clock advancing every started worker eventually
\* terminates.
C22_WorkerIterations ==
    /\ [][/\ \A i \in Workers : IterationStep(i)
          /\ requests' # requests =>
                 \E i \in Workers : wPc[i] = "calling" /\ wPc'[i] = "pausing"]_vars
    /\ \A i \in {1, 2} :
           WorkerAt(i, {"calling", "backoff", "pausing", "rejected", "done"})
               ~> WorkerAt(i, {"done"})

-----------------------------------------------------------------------------
(* Properties of saveAs *)

\* C23: a request step whose call raises after the retry budget is spent
\* leaves the variable store as it was, with continueOnFailure too; the store
\* changes only when a request step succeeds, and then the response is what its
\* saveAs name holds.
C23_NoSaveOnFailure ==
    [][(apiPc \in {"calling", "waiting", "inStep"}) =>
          LET step == apiTest.steps[apiIdx]
              ended == Len(apiOutcomes') = Len(apiOutcomes) + 1
              sr == apiOutcomes'[Len(apiOutcomes')]
          IN  /\ (ended /\ sr.status = "failed") => apiResult'.slots = apiResult.slots
              /\ apiResult'.slots # apiResult.slots =>
                     /\ ended
                     /\ step.type = "request"
                     /\ sr.status = "passed"
                     /\ step.saveAs # "none"
                     /\ apiResult'.slots[step.saveAs] = sr.response
              /\ (ended /\ sr.status = "passed" /\ step.type = "request"
                      /\ step.saveAs # "none") =>
                     /\ step.saveAs \in DOMAIN apiResult'.slots
                     /\ apiResult'.slots[step.saveAs] = sr.response]_vars

\* the second request step failed with continueOnFailure and a saveAs name that
\* holds the response of the first
C23_Witness ==
    /\ apiPc = "done"
    /\ Len(apiOutcomes) = 2
    /\ apiOutcomes[1].status = "passed"
    /\ apiOutcomes[2].status = "failed"
    /\ apiTest.steps[2].type = "request"
    /\ apiTest.steps[2].saveAs = "resp"
    /\ apiTest.steps[2].continueOnFailure
    /\ calls[2] = apiConfig.retries
    /\ apiConfig.retries > 1
    /\ "resp" \in DOMAIN apiResult.slots
    /\ apiResult.slots["resp"] = apiOutcomes[1].response

-----------------------------------------------------------------------------
(* Properties of executeTest *)

\* C24: when a test fails in executeTest the failure screenshot is attempted
\* once, while the context is still open; the attempt is followed by the
\* release of the context whether it succeeded or not; a capture that fails
\* leaves the outcome as it was, failed with the triggering error and no
\* screenshot entry; executeTest rejects from no capture, and once close has
\* resolved it returns the outcome.
C24_CaptureNotFatal ==
    [][\A p \in Pairings :
          /\ (testResult[p].status # "failed" /\ testResult'[p].status = "failed") =>
                 /\ pc'[p] = "screenshot"
                 /\ testResult'[p].screenshots = 0
                 /\ ctx'[p] = "open"
          /\ pc'[p] = "screenshot" => testResult'[p].status = "failed"
          /\ (pc[p] = "screenshot" /\ pc'[p] # "screenshot") =>
                 /\ pc'[p] = "close"
                 /\ ctx'[p] = "open"
                 /\ \/ testResult'[p] = testResult[p]
                    \/ testResult'[p] = [testResult[p] EXCEPT !.screenshots = 1]
          /\ (pc[p] = "close" /\ pc'[p] # "close") =>
                 /\ testResult'[p] = testResult[p]
                 /\ ctx'[p] \in {"closed", "closeFailed"}
                 /\ ctx'[p] = "closed" =>
                        /\ pc'[p] = "fulfilled"
                        /\ events'[Len(events')].result = testResult[p]]_vars

\* a test has failed, the capture has failed, the context is closed and the
\* outcome is returned, failed with the error of the blocking step
C24_Witness ==
    \E p \in Pairings :
        /\ pc[p] = "fulfilled"
        /\ ctx[p] = "closed"
        /\ testResult[p].status = "failed"
        /\ testResult[p].screenshots = 0
        /\ Len(testResult[p].steps) >= 1
        /\ testResult[p].error
               = "Step failed: " \o testResult[p].steps[Len(testResult[p].steps)].error
        /\ rtPc = "returned"
        /\ results[p] = testResult[p]

\* C25: within one test execution the steps run one after the other in
\* declared order: executeStep has been called on steps 1, 2, ... in that
\* order, at most one call has not produced its outcome yet, so that step i+1
\* starts only after the outcome of step i, and the j-th outcome recorded is
\* that of the j-th step - whatever the other pairings of the batch are doing.
C25_StepsSequential ==
    \A p \in Pairings :
        testResult[p].status # "none" =>
            LET t == TestOf(p)
                st == started[p]
                out == testResult[p].steps
            IN  /\ Len(st) <= Len(t.steps)
                /\ \A j \in 1 .. Len(st) : st[j] = j
                /\ Len(out) <= Len(st)
                /\ Len(st) - Len(out) <= 1
                /\ pc[p] = "inStep" <=>
                       (Len(st) = Len(out) + 1 /\ t.steps[Len(st)].kind # "null")
                /\ pc[p] = "inStep" => idx[p] = Len(st)
                /\ \A j \in 1 .. Len(out) : out[j].action = t.steps[j].kind

\* two pairings run at once: one is in its second step with the outcome of its
\* first recorded, the other still in its first step
C25_Witness ==
    \E p, q \in Pairings :
        /\ p # q
        /\ pc[p] = "inStep"
        /\ started[p] = <<1, 2>>
        /\ Len(testResult[p].steps) = 1
        /\ testResult[p].steps[1].action = "page"
        /\ TestOf(p).steps[2].kind = "unknown"
        /\ pc[q] = "inStep"
        /\ started[q] = <<1>>
        /\ testResult[q].steps = <<>>

\* the pairings for which a context has been created: context p is the one
\* the newContext call of pairing p returned
Created == {p \in Pairings : ctx[p] # "none"}

\* pairing p works on context p only, and only while it is open: the page is
\* made, the steps run, the capture is taken and close is called on the open
\* context, and after close the execution does nothing but settle
OwnContextOnly(p) ==
    /\ pc[p] \in {"newPage", "inStep", "screenshot", "close"} => ctx[p] = "open"
    /\ ctx[p] = "closed" => pc[p] = "fulfilled"
    /\ ctx[p] = "closeFailed" => pc[p] = "rejected"
    /\ pc[p] \in {"notStarted", "newContext"} => ctx[p] = "none"

\* C26 (as claimed): every context is created for one pairing's execution and
\* used by that execution alone, never after it was closed, and when runTests
\* has returned the number of contexts created is the number of pairings.
C26_ContextPerPairing ==
    /\ \A p \in Pairings : OwnContextOnly(p)
    /\ rtPc = "returned" => Cardinality(Created) = NumPairings

\* C26 (amended): every context is created for one pairing's execution and
\* used by that execution alone, never after it was closed; newContext is
\* called once per pairing, and when runTests has returned the contexts
\* created are those of the pairings whose newContext call resolved: as many
\* as the pairings unless a call was rejected.
C26_ContextPerResolvedCall ==
    /\ \A p \in Pairings : OwnContextOnly(p)
    /\ rtPc = "returned" =>
           /\ Created = {p \in Pairings : reason[p] # ContextError}
           /\ Cardinality(Created) <= NumPairings

\* runTests has returned from a batch in which one pairing got no context and
\* another ran on its own and closed it
C26_Witness ==
    /\ rtPc = "returned"
    /\ \E p, q \in Pairings :
           /\ reason[p] = ContextError
           /\ ctx[p] = "none"
           /\ ctx[q] = "closed"
           /\ Len(testResult[q].steps) >= 1

-----------------------------------------------------------------------------
(* Properties of runAPITest *)

\* C27 (as claimed): runAPITest appends the outcome of every step it executes:
\* when it returns, the step outcomes it has recorded are as many as the
\* outcomes executeAPIStep returned, and each of those is among them, whatever
\* the kind of the step.
C27_EveryOutcomeRecorded ==
    apiPc = "done" =>
        /\ Len(apiResult.requests) + Len(apiResult.assertions) = Len(apiOutcomes)
        /\ \A j \in 1 .. Len(apiOutcomes) : apiOutcomes[j] \in ApiRecorded

-----------------------------------------------------------------------------
(* Properties of the error a failed test reports *)

\* the error of the test outcome r is the message sent, given the steps
\* declared and the outcomes executeStep or executeAPIStep returned, whenever
\* there is a first failed step without continueOnFailure
ReportsFirstBlocking(r, steps, outcomes, sent(_)) ==
    \A k \in 1 .. Len(steps) :
        FirstBlocking(steps, outcomes, k) =>
            /\ r.status = "failed"
            /\ r.error = sent(outcomes[k].error)

Verbatim(msg) == msg
Prefixed(msg) == "Step failed: " \o msg

\* C28 (as claimed): the error of a failed test outcome is the error string of
\* its first failed step without continueOnFailure, verbatim.
C28_ErrorVerbatim ==
    /\ \A p \in Pairings :
           testResult[p].status \in {"passed", "failed"} =>
               ReportsFirstBlocking(testResult[p], TestOf(p).steps,
                                    testResult[p].steps, Verbatim)
    /\ apiPc = "done" =>
           ReportsFirstBlocking(apiResult, apiTest.steps, apiOutcomes, Verbatim)

\* C28 (amended): the error of a failed test outcome is "Step failed: "
\* followed by the error string of its first failed step without
\* continueOnFailure, verbatim.
C28_ErrorPrefixed ==
    /\ \A p \in Pairings :
           testResult[p].status \in {"passed", "failed"} =>
               ReportsFirstBlocking(testResult[p], TestOf(p).steps,
                                    testResult[p].steps, Prefixed)
    /\ apiPc = "done" =>
           ReportsFirstBlocking(apiResult, apiTest.steps, apiOutcomes, Prefixed)

\* a test whose first step failed with continueOnFailure and whose second step
\* failed without it reports the error of the second
C28_Witness ==
    \E p \in Pairings :
        /\ pc[p] = "fulfilled"
        /\ Len(testResult[p].steps) = 2
        /\ testResult[p].steps[1].status = "failed"
        /\ testResult[p].steps[1].error = PageError
        /\ FirstBlocking(TestOf(p).steps, testResult[p].steps, 2)
        /\ testResult[p].error = "Step failed: " \o UnknownActionError

-----------------------------------------------------------------------------
(* Properties of assertions whose expected is a function *)

\* C29 (as claimed): a body assertion whose expected is a predicate function
\* passes when the value found at the path satisfies the predicate and fails
\* when it does not.
C29_PredicateExpected ==
    (/\ fnName = "executeAssertion"
     /\ fnPc = "returned"
     /\ fnArgs.assertion.type = "body"
     /\ fnArgs.assertion.expected = Val("function", "nonEmptyString")
     /\ "data" \in DOMAIN fnArgs.response) =>
        (fnRet.status = "returned" <=>
             NonEmptyString(Resolve(fnArgs.response.data, fnArgs.assertion.path)))

-----------------------------------------------------------------------------
(* Properties of generateTests *)

\* C30 (as claimed): generateTests on a description that matches the login
\* pattern and no other returns a list of exactly one test, whose pattern is
\* login.
C30_OneLoginTest ==
    (/\ fnName = "generateTests"
     /\ fnPc = "returned"
     /\ {fnRet[j].pattern : j \in DOMAIN fnRet} = {"login"}) =>
        /\ Len(fnRet) = 1
        /\ fnRet[1].pattern = "login"


-----------------------------------------------------------------------------
(* Properties of the batch summary *)

BatchEvents == {i \in 1 .. Len(events) : events[i].type = "testsCompleted"}

\* C31: a runTests invocation that has returned has emitted testsCompleted
\* exactly once and after every testCompleted of the batch (before it returns,
\* never); the event carries the results returned, and its summary agrees with
\* them: total is the number of entries, one per pairing, every entry is passed
\* or failed, total = passed + failed and skipped = 0.
C31_SummaryConsistent ==
    /\ rtPc # "returned" => BatchEvents = {}
    /\ rtPc = "returned" =>
          /\ BatchEvents = {Len(events)}
          /\ LET e == events[Len(events)]
             IN  /\ e.results = results
                 /\ e.summary.total = Len(results)
                 /\ e.summary.total = Len(browsers) * Len(tests)
                 /\ \A i \in 1 .. Len(results) : results[i].status \in {"passed", "failed"}
                 /\ e.summary.total = e.summary.passed + e.summary.failed
                 /\ e.summary.skipped = 0
                 /\ e.summary.passed = Count(results, "passed")
                 /\ e.summary.failed = Count(results, "failed")

\* a batch of two pairings returned, one passed and one rejected, after the
\* testCompleted of the one that passed
C31_Witness ==
    /\ rtPc = "returned"
    /\ Len(events) = 2
    /\ events[1].type = "testCompleted"
    /\ events[2].type = "testsCompleted"
    /\ events[2].summary = [total |-> 2, passed |-> 1, failed |-> 1, skipped |-> 0]
    /\ \E p \in Pairings : pc[p] = "rejected"

-----------------------------------------------------------------------------
(* Properties of two overlapping runTests invocations *)

\* C32 (as claimed): an invocation that overlapped the other caller's and has
\* returned has returned, and reported in its testsCompleted event, exactly the
\* entries of its own batch, in pairing order.
C32_OwnEntriesOnly ==
    /\ \A k \in Callers :
          invs[k].pc = "returned" /\ invs[k].overlapped =>
              arrays[invs[k].returned] = EntriesOf(k)
    /\ \A i \in 1 .. Len(events) :
          (events[i].type = "testsCompleted"
              /\ invs[events[i].caller].overlapped) =>
              events[i].results = EntriesOf(events[i].caller)

\* C33 (as claimed): isRunning is true exactly while at least one runTests
\* invocation is in progress.
C33_RunningWhileInProgress ==
    isRunning = (\E k \in Callers : InProgress(k))

-----------------------------------------------------------------------------
(* Properties of the load-test deadline *)

\* C34 (as claimed): no call of a load-test worker is issued at or after the
\* deadline of the run, a retry of makeRequest included: every call in flight
\* was issued before endTime.
C34_NoCallAfterDeadline ==
    ltPc # "unused" =>
        \A i \in Workers : wPc[i] = "calling" => wSent[i] < EndTime

-----------------------------------------------------------------------------
(* Properties of saveAs and the outcome record *)

\* C35 (as claimed): whatever the saveAs names of its request steps, a test
\* whose steps have all returned a passed outcome ends passed, and its requests
\* list is still the list of the request outcomes returned, in order.
C35_SaveAsKeepsOutcome ==
    (/\ apiPc = "done"
     /\ Len(apiOutcomes) = Len(apiTest.steps)
     /\ \A k \in 1 .. Len(apiOutcomes) : apiOutcomes[k].status = "passed") =>
        /\ apiResult.status = "passed"
        /\ "requests" \notin DOMAIN apiResult.slots
        /\ apiResult.requests = SelectSeq(apiOutcomes, LAMBDA sr : sr.type = "request")

-----------------------------------------------------------------------------
(* Properties of the order of the results *)

\* C36: the results runTests returns are in pairing order, whatever the order
\* in which the executions finished: with b counting the browsers in
\* initialization order and t the tests of the batch, both from 0, entry number
\* b * |tests| + t is the outcome of browser b with test t, or the failed entry
\* made of that pairing's rejection.
C36_PairingOrder ==
    rtPc = "returned" =>
        /\ Len(results) = Len(browsers) * Len(tests)
        /\ \A b \in 0 .. Len(browsers) - 1 : \A t \in 0 .. Len(tests) - 1 :
              LET p == b * Len(tests) + t + 1
              IN  /\ pc[p] = "fulfilled" =>
                        /\ results[p] = testResult[p]
                        /\ results[p].browser = browsers[b + 1]
                        /\ results[p].id = t + 1
                  /\ pc[p] = "rejected" =>
                        results[p] = [status |-> "failed", error |-> reason[p]]

\* two browsers and two tests: the last pairing finished first and the second
\* one was rejected, and the entries are in pairing order all the same
C36_Witness ==
    /\ rtPc = "returned"
    /\ Len(browsers) = 2 /\ Len(tests) = 2
    /\ events[1].type = "testCompleted" /\ events[1].pairing = 4
    /\ pc[2] = "rejected" /\ pc[1] = "fulfilled" /\ pc[4] = "fulfilled"
    /\ results[2].status = "failed"
    /\ results[4].browser = browsers[2] /\ results[4].id = 2
    /\ results[1].browser = browsers[1] /\ results[1].id = 1

-----------------------------------------------------------------------------
(* Properties of custom steps *)

\* C37 (as claimed): a custom step is reported passed only if its handler is
\* callable (it was then invoked and completed without raising).
C37_PassedOnlyIfInvoked ==
    \A p \in Pairings :
        testResult[p] # NoResult =>
            \A j \in 1 .. Len(testResult[p].steps) :
                (/\ testResult[p].steps[j].action = "custom"
                 /\ testResult[p].steps[j].status = "passed") =>
                    TestOf(p).steps[j].handler = "function"

-----------------------------------------------------------------------------
(* Properties of initialize and cleanup *)

Logged(what) == {k \in 1 .. Len(bootLog) : bootLog[k].what = what}

Launched == {bootLog[k].type : k \in Logged("initialized")}

\* C38: initialize ends once every configured type has been tried, a type that
\* is not supported or whose launch rejected skipped; it succeeds iff a launch
\* resolved, the browsers Map then holding exactly the types launched, none
\* twice, and raises iff none did; after cleanup the Map is empty, whether or
\* not a close rejected.
C38_InitializeAndCleanup ==
    /\ bootPc \in {"ready", "raised"} =>
          /\ Cardinality(Logged("initialized") \cup Logged("failed")) = Len(configured)
          /\ \A k \in 1 .. Len(configured) : bootLog[k].type = configured[k]
          /\ \A k \in 1 .. Len(configured) :
                configured[k] = Unsupported => bootLog[k].what = "failed"
    /\ bootPc = "ready" =>
          /\ Launched # {}
          /\ Len(browsers) > 0
          /\ Range(browsers) = Launched
          /\ Cardinality(Range(browsers)) = Len(browsers)
    /\ bootPc = "raised" => Launched = {} /\ Len(browsers) = 0
    /\ bootPc = "clean" => Len(browsers) = 0

\* of three configured types the first is not supported, the launch of the
\* second rejected and the third launched; cleanup then cleared the Map though
\* the close rejected
C38_Witness ==
    /\ bootPc = "clean"
    /\ configured = <<Unsupported, BrowserTypes[1], BrowserTypes[2]>>
    /\ bootLog = <<[type |-> Unsupported, what |-> "failed"],
                   [type |-> BrowserTypes[1], what |-> "failed"],
                   [type |-> BrowserTypes[2], what |-> "initialized"],
                   [type |-> BrowserTypes[2], what |-> "closeFailed"]>>
    /\ browsers = <<>>

-----------------------------------------------------------------------------
(* Properties of the Dashboard *)

\* C39: after any sequence of broadcastResults calls, testResults holds at most
\* KeepLast entries, and they are the results that arrived last, in the order
\* of arrival: all of them while no more than KeepLast have arrived.
C39_MostRecentKept ==
    LET n == IF arrived < KeepLast THEN arrived ELSE KeepLast
    IN  /\ Len(testResults) <= KeepLast
        /\ Len(testResults) = n
        /\ \A k \in 1 .. n : testResults[k] = arrived - n + k

\* 1001 results have arrived in more than one call, and the first is gone
C39_Witness ==
    /\ arrived = KeepLast + 1
    /\ Len(testResults) = KeepLast
    /\ testResults[1] = 2
    /\ testResults[KeepLast] = KeepLast + 1

LastEvent(id) ==
    LET about == {k \in 1 .. Len(ioEvents) :
                     /\ ioEvents[k].type \in {"testStarted", "testCompleted", "testStopped"}
                     /\ ioEvents[k].testId = id}
    IN  IF about = {} THEN "none"
        ELSE ioEvents[CHOOSE k \in about : \A j \in about : j <= k].type

\* C40: the registry holds exactly the ids started and neither completed nor
\* stopped since; a stop request for an id it holds removes the id, emits
\* testStopped and is answered 200, a stop request for any other id is answered
\* 404 and changes nothing; progress is stored and testProgress emitted only
\* for an id the registry holds.
C40_Registry ==
    /\ [](/\ activeTests = {id \in TestIds : LastEvent(id) = "testStarted"}
          /\ DOMAIN progress = activeTests)
    /\ [][/\ (answers' # answers) =>
                LET a == answers'[Len(answers')]
                IN  IF a.testId \in activeTests
                    THEN /\ a.status = 200
                         /\ activeTests' = activeTests \ {a.testId}
                         /\ ioEvents' = Append(ioEvents, [type |-> "testStopped",
                                                          testId |-> a.testId])
                    ELSE /\ a.status = 404
                         /\ UNCHANGED <<activeTests, ioEvents, progress>>
          /\ (activeTests' = activeTests /\ answers' = answers) =>
                \/ UNCHANGED <<progress, ioEvents>>
                \/ \E id \in activeTests :
                      /\ progress' = [progress EXCEPT ![id] = progress'[id]]
                      /\ ioEvents' = Append(ioEvents,
                             [type |-> "testProgress", testId |-> id,
                              progress |-> progress'[id]])
                \/ \E id \in activeTests :
                      /\ progress' = [progress EXCEPT ![id] = "none"]
                      /\ Len(ioEvents') = Len(ioEvents) + 2
                      /\ ioEvents'[Len(ioEvents) + 1] =
                             [type |-> "testStarted", testId |-> id]
                \/ \E id \in TestIds \ activeTests :
                      /\ UNCHANGED progress
                      /\ Len(ioEvents') = Len(ioEvents) + 2
                      /\ ioEvents'[Len(ioEvents) + 1] =
                             [type |-> "testCompleted", testId |-> id]]_vars

\* test 1 was started, its progress reported, and stopped; the second stop
\* request for it was answered 404
C40_Witness ==
    /\ activeTests = {}
    /\ answers = <<[testId |-> 1, status |-> 200], [testId |-> 1, status |-> 404]>>
    /\ Len(ioEvents) = 4
    /\ ioEvents[3] = [type |-> "testProgress", testId |-> 1, progress |-> "half"]
    /\ ioEvents[4] = [type |-> "testStopped", testId |-> 1]

====
